---- MODULE Spec2Model ----
(***************************************************************************)
(* Realtime connection, execution-event router and order-timeout           *)
(* supervisor of KiwoomWebSocket (src/projects/modules/kiwoom_base.py).    *)
(*                                                                         *)
(* Strings of the source that are not ASCII are written romanised:         *)
(*   "jumun"    the wire status literal of kiwoom_base.py:291              *)
(*   "jeopsu"   the Received status of kiwoom_base.py:239 and :293         *)
(*   "chegyeol" the Filled status of kiwoom_base.py:253                    *)
(*   "hwagin"   some other status literal of the wire                      *)
(*   "maesu" / "maedo"   buy / sell of kiwoom_base.py:300                  *)
(*                                                                         *)
(* The program is one asyncio event loop: code between two awaits runs     *)
(* without interruption, so one action is the code from one suspension     *)
(* point to the next.  The clock and the timer tasks move only while the   *)
(* receive loop is suspended (Suspended).                                  *)
(***************************************************************************)
EXTENDS Integers, Sequences, FiniteSets, TLC

(* ---- program constants ---- *)
TIMEOUT == 300

(* ---- bounds of the model ---- *)
MaxTicks == 3
MaxTasks == 3
MaxSubs == 2
MaxPositions == 2

\* the clock moves in halves of the timeout
ClockStep == TIMEOUT \div 2
MaxTime == MaxTicks * ClockStep

OrderNos == {"O1", "O2"}

VARIABLES
    now,            \* wall clock, seconds
    websocket,      \* self.websocket: "None", "open" or "closed"
    is_connected,   \* self.is_connected
    callbacks,      \* keys of self.callbacks
    order_timers,   \* self.order_timers: order_no -> id of the stored task
    tasks,          \* the timer tasks that are still pending in the event loop
    pc,             \* position of the receive_messages task
    pending,        \* records of the REAL frame in hand not yet routed
    cur,            \* the handler being awaited and the parsed record it was given
    sent,           \* wire texts the step just taken handed to websocket.send
    hist,           \* per order: the events processed since its latest Received
    last,           \* what the step just taken was
    subscriptions,  \* self.subscriptions
    account_no,     \* self.account_no
    transports,     \* the transports connect() has created, "open" or "closed" each;
                    \* self.websocket is the last one
    loops,          \* the receive_messages tasks that have not ended
    is_trading_active,  \* TradingMain.is_trading_active
    datetime_now,   \* what datetime.now() returns at this moment
    in_window,      \* what config.is_trading_time() returns at this moment
    polled,         \* what the latest call of config.is_trading_time() returned
    overnight,      \* config.IS_OVER_NIGHT_MODE
    has_controller, \* TradingMain.trading_controller is set
    trading_task,   \* TradingMain.trading_task: "unset", "running",
                    \* "cancelling", "cancelled" or "done"
    mpc,            \* position of start() and of the monitor_trading_time task
    closing,        \* the finally clause of start() has been entered
    trace           \* the effects of the transition in hand, in their order

\* the transports and the receive tasks of the connection object
loopvars == <<transports, loops>>

\* the subscription state of the connection object
subvars == <<subscriptions, account_no, loopvars>>

\* the state of TradingMain
mainvars == <<is_trading_active, datetime_now, in_window, polled, overnight, has_controller,
              trading_task, mpc, closing, trace>>

\* the variables of the timers and of the router
timervars == <<now, order_timers, tasks, pending, cur, hist>>

vars == <<now, websocket, is_connected, callbacks, order_timers,
          tasks, pc, pending, cur, sent, hist, last, subvars, mainvars>>

(* ------------------------------------------------------------------------ *)
(* JSON documents and wire texts                                            *)
(* ------------------------------------------------------------------------ *)

\* dict.get(k, default)
Get(d, k, default) == IF k \in DOMAIN d THEN d[k] ELSE default

\* A wire text is the document it spells and the way it is spelled:
\* "spaced" is the spelling of json.dumps (separators ", " and ": "),
\* "compact" is the same document without the blanks.
WireText(doc, layout) == [kind |-> "text", doc |-> doc, layout |-> layout]

\* json.dumps(obj): always the default separators
json_dumps(doc) == WireText(doc, "spaced")

\* json.loads(message): the document, whatever its spelling
json_loads(message) == message.doc

(* ------------------------------------------------------------------------ *)
(* Inbound frames                                                           *)
(* ------------------------------------------------------------------------ *)

EmptyDict == [k \in {} |-> ""]

WireStatuses == {"jumun", "jeopsu", "chegyeol", "hwagin", ""}

\* '907' of the orders of the model: O1 is a buy, O2 a sell
SideOf(o) == IF o = "O1" THEN "2" ELSE "1"

\* 'values' of an order record; NoStatus stands for a record without '913'
NoStatus == "(absent)"
OrderValues(o, st) ==
    LET base == ("9203" :> o) @@ ("9001" :> "005930") @@ ("907" :> SideOf(o))
    IN  IF st = NoStatus THEN base ELSE base @@ ("913" :> st)

OrderRecords ==
    {[type |-> "00", values |-> OrderValues(o, st)] :
        o \in OrderNos, st \in WireStatuses \cup {NoStatus}}
    \cup {[type |-> "04", values |-> OrderValues("O1", "jumun")],
          [type |-> "04", values |-> OrderValues("O2", "chegyeol")]}

BalanceRecords == {[type |-> "05", values |-> EmptyDict]}
OtherRecords == {[type |-> "0B", values |-> EmptyDict]}
Records == OrderRecords \cup BalanceRecords \cup OtherRecords

\* the records that follow another one in the frames of the model
LaterRecords ==
    {[type |-> "00", values |-> OrderValues(o, st)] :
        o \in OrderNos, st \in {"jumun", "chegyeol"}}
    \cup BalanceRecords

\* 'data' of a REAL frame: one record, or two
RealData == {<<r>> : r \in Records}
            \cup {<<r1, r2>> : r1 \in Records, r2 \in LaterRecords}

\* the REAL frames of the specification of the whole connection
FewRecords == {[type |-> "00", values |-> OrderValues("O1", "jumun")],
               [type |-> "00", values |-> OrderValues("O1", "chegyeol")]}
              \cup BalanceRecords
FewRealData == {<<r>> : r \in FewRecords}
               \cup {<<r1, r2>> : r1 \in FewRecords, r2 \in FewRecords}

PingDocs == {("trnm" :> "PING"), ("trnm" :> "PING") @@ ("nonce" :> "abc")}
Layouts == {"compact", "spaced"}

\* response.get('return_code', -1): what a frame without return_code yields
DefaultReturnCode == -1

\* return_code of a LOGIN or REG answer as the loop reads it
ReturnCodes == {0, 8005, DefaultReturnCode}

\* 'code' of a SYSTEM frame
SystemCodes == {"R10004", "XR10004", "R10001", ""}
\* as HasR10004, the code compared for equality
HasR10004_Exact(code) == code = "R10004"

\* 'R10004' in code
HasR10004(code) == code \in {"R10004", "XR10004"}

\* trnm of a frame no branch of the loop knows; "" is a frame without trnm
OtherKinds == {"XYZ", ""}

(* ------------------------------------------------------------------------ *)
(* Order decoding                                                           *)
(* ------------------------------------------------------------------------ *)

\* The value of a quantity or price field is a Python object: a str, spelled
\* as the sequence of its characters, or None (a JSON null).
PyStr(chars) == [kind |-> "str", chars |-> chars]
PyNone == [kind |-> "None", chars |-> <<>>]

\* bool(value)
Truthy(value) == value.kind = "str" /\ value.chars # <<>>

\* str(value)
str(value) == IF value.kind = "str" THEN value.chars ELSE <<"N", "o", "n", "e">>

RECURSIVE lstrip(_)
lstrip(s) == IF s # <<>> /\ Head(s) = " " THEN lstrip(Tail(s)) ELSE s

RECURSIVE rstrip(_)
rstrip(s) ==
    IF s # <<>> /\ s[Len(s)] = " " THEN rstrip(SubSeq(s, 1, Len(s) - 1)) ELSE s

\* str.strip()
strip(s) == rstrip(lstrip(s))

\* the decimal digits and their values
DigitValue ==
    ("0" :> 0) @@ ("1" :> 1) @@ ("2" :> 2) @@ ("3" :> 3) @@ ("4" :> 4)
    @@ ("5" :> 5) @@ ("6" :> 6) @@ ("7" :> 7) @@ ("8" :> 8) @@ ("9" :> 9)
IsDigit(c) == c \in DOMAIN DigitValue

RECURSIVE Decimal(_)
Decimal(s) ==
    IF s = <<>> THEN 0
    ELSE Decimal(SubSeq(s, 1, Len(s) - 1)) * 10 + DigitValue[s[Len(s)]]

\* the digits of the text of an integer: the text stripped, without its sign
IntBody(s) ==
    LET t == strip(s)
    IN  IF t # <<>> /\ Head(t) \in {"+", "-"} THEN Tail(t) ELSE t

\* int(value) raises: TypeError for None, ValueError for a text that is not
\* an optional sign and digits between optional blanks
IntRaises(value) ==
    \/ value.kind # "str"
    \/ LET body == IntBody(value.chars)
       IN  body = <<>> \/ \E i \in DOMAIN body : ~IsDigit(body[i])

\* int(value) of a text it accepts
IntOf(value) ==
    LET t == strip(value.chars)
    IN  IF Head(t) = "-" THEN 0 - Decimal(IntBody(value.chars))
        ELSE Decimal(IntBody(value.chars))

\* as safe_int, a text that int() rejects decoded to -1
safe_int_Sentinel(value, default) ==
    IF ~Truthy(value) \/ strip(str(value)) = <<>> THEN default
    ELSE IF IntRaises(value) THEN 0 - 1
    ELSE IntOf(value)

\* safe_int of _parse_order_execution: the exceptions of int() are caught
safe_int(value, default) ==
    IF ~Truthy(value) \/ strip(str(value)) = <<>> THEN default
    ELSE IF IntRaises(value) THEN default
    ELSE IntOf(value)

\* as _parse_order_execution, the wire literal "jumun" left as it is
_parse_order_execution_NoNormalize(data) ==
    LET values == Get(data, "values", EmptyDict)
        buy_sell == Get(values, "907", "")
    IN  [order_no     |-> Get(values, "9203", ""),
         stock_code   |-> Get(values, "9001", ""),
         stock_name   |-> Get(values, "302", ""),
         order_status |-> Get(values, "913", ""),
         buy_sell     |-> IF buy_sell = "2" THEN "maesu" ELSE "maedo",
         action       |-> IF buy_sell = "2" THEN "maesu" ELSE "maedo",
         order_qty    |-> safe_int(Get(values, "900", PyStr(<<"0">>)), 0),
         exec_qty     |-> safe_int(Get(values, "911", PyStr(<<"0">>)), 0),
         exec_price   |-> safe_int(Get(values, "910", PyStr(<<"0">>)), 0),
         remain_qty   |-> safe_int(Get(values, "902", PyStr(<<"0">>)), 0)]

_parse_order_execution(data) ==
    LET values == Get(data, "values", EmptyDict)
        order_status ==
            IF Get(values, "913", "0") = "jumun" THEN "jeopsu"
            ELSE Get(values, "913", "")
        buy_sell == Get(values, "907", "")
    IN  [order_no     |-> Get(values, "9203", ""),
         stock_code   |-> Get(values, "9001", ""),
         stock_name   |-> Get(values, "302", ""),
         order_status |-> order_status,
         buy_sell     |-> IF buy_sell = "2" THEN "maesu" ELSE "maedo",
         action       |-> IF buy_sell = "2" THEN "maesu" ELSE "maedo",
         order_qty    |-> safe_int(Get(values, "900", PyStr(<<"0">>)), 0),
         exec_qty     |-> safe_int(Get(values, "911", PyStr(<<"0">>)), 0),
         exec_price   |-> safe_int(Get(values, "910", PyStr(<<"0">>)), 0),
         remain_qty   |-> safe_int(Get(values, "902", PyStr(<<"0">>)), 0)]

NoRecord == [order_no |-> "", stock_code |-> "", stock_name |-> "",
             order_status |-> "", buy_sell |-> "", action |-> "",
             order_qty |-> 0, exec_qty |-> 0, exec_price |-> 0, remain_qty |-> 0]

\* the keys of the amounts and quantities of a balance record
BalanceKeys == {"ord_psbl_cash", "tot_evlu_amt", "hldg_qty", "pchs_avg_pric"}

\* _parse_balance(data) without 'time' and 'raw_data': the values of the
\* record are handed on as they are, the text '0' for a missing one
_parse_balance(data) ==
    [ord_psbl_cash |-> Get(data, "ord_psbl_cash", PyStr(<<"0">>)),
     tot_evlu_amt  |-> Get(data, "tot_evlu_amt", PyStr(<<"0">>)),
     stock_code    |-> Get(data, "stck_shrn_iscd", ""),
     holding_qty   |-> Get(data, "hldg_qty", PyStr(<<"0">>)),
     avg_price     |-> Get(data, "pchs_avg_pric", PyStr(<<"0">>))]

\* no balance record decoded
NoBalance == [ord_psbl_cash |-> PyNone, tot_evlu_amt |-> PyNone, stock_code |-> "",
              holding_qty |-> PyNone, avg_price |-> PyNone]

\* the texts of a quantity or price field in the records of the model
NumericTexts ==
    {<<>>, <<" ">>, <<" ", " ">>, <<"0">>, <<"7">>, <<"1", "2">>, <<" ", "7">>,
     <<"7", " ">>, <<"0", "1", "2">>, <<"+", "7">>, <<"-", "7">>, <<"-">>,
     <<"a">>, <<"1", "a">>, <<"1", ".", "5">>, <<"1", " ", "2">>}

NumericValues == {PyStr(t) : t \in NumericTexts} \cup {PyNone}

\* the field codes of the quantities and the price, and of the texts
NumericKeys == {"900", "911", "910", "902"}
TextKeys == {"9203", "9001", "302", "913", "907"}

\* 'values' with every field of an order: a filled buy of O1
FullValues ==
    ("9203" :> "O1") @@ ("9001" :> "005930") @@ ("302" :> "samsung")
    @@ ("913" :> "chegyeol") @@ ("907" :> "2")
    @@ [k \in NumericKeys |-> PyStr(<<"1", "2">>)]

\* d without the key k
Dropped(d, k) == [j \in (DOMAIN d) \ {k} |-> d[j]]

\* order records with one field missing, with one quantity or price text
\* replaced, and with every quantity and the price of the same text
DecodeRecords ==
    {[type |-> "00", values |-> v] :
        v \in {FullValues}
              \cup {Dropped(FullValues, k) : k \in NumericKeys \cup TextKeys}
              \cup {[FullValues EXCEPT ![k] = x] :
                        k \in NumericKeys, x \in NumericValues}
              \cup {[k \in NumericKeys |-> x] @@ FullValues : x \in NumericValues}}
    \cup {[type |-> "04", values |-> EmptyDict], [type |-> "00"]}

\* a balance record with every amount and quantity
FullBalance ==
    ("type" :> "05") @@ ("stck_shrn_iscd" :> "005930")
    @@ [k \in BalanceKeys |-> PyStr(<<"1", "2">>)]

\* balance records with one field missing, with one amount or quantity
\* replaced, and with every amount and quantity of the same text
BalanceDecodeRecords ==
    {FullBalance}
    \cup {Dropped(FullBalance, k) : k \in BalanceKeys \cup {"stck_shrn_iscd"}}
    \cup {[FullBalance EXCEPT ![k] = x] : k \in BalanceKeys, x \in NumericValues}
    \cup {[k \in BalanceKeys |-> x] @@ FullBalance : x \in NumericValues}
    \cup {[type |-> "05"]}

\* the REAL frames of the specification of the balance decoding: a record of
\* BalanceDecodeRecords, alone or followed by a Received of O2
BalanceRealData ==
    {<<r>> : r \in BalanceDecodeRecords}
    \cup {<<r, [type |-> "00", values |-> OrderValues("O2", "jumun")]>> :
             r \in BalanceDecodeRecords}

\* the REAL frames of the specification of the decoding: a record of
\* DecodeRecords, alone or followed by a Received of O2
DecodeRealData ==
    {<<r>> : r \in DecodeRecords}
    \cup {<<r, [type |-> "00", values |-> OrderValues("O2", "jumun")]>> :
             r \in DecodeRecords}

(* ------------------------------------------------------------------------ *)
(* Order timeout supervisor                                                 *)
(* ------------------------------------------------------------------------ *)

TaskIds(ts) == {t.id : t \in ts}

\* asyncio.create_task: a task object distinct from every pending one
FreshId(ts) == CHOOSE i \in 1..MaxTasks :
                  i \notin TaskIds(ts) /\ \A j \in 1..(i - 1) : j \in TaskIds(ts)

\* task.cancel(): CancelledError is thrown into the task at its sleep, the
\* task ends in its except clause without logging anything
Cancel(ts, id) == {t \in ts : t.id # id}

\* del self.order_timers[order_no]
Without(timers, o) == [k \in (DOMAIN timers) \ {o} |-> timers[k]]

\* a new timer task of the order of data
NewTimerTask(data, ts, t_now) ==
    [id |-> FreshId(ts), order_no |-> data.order_no, armed_at |-> t_now,
     stock_code |-> data.stock_code, buy_sell |-> data.buy_sell]

\* self.order_timers[order_no] = timer_task
WithTimer(timers, o, id) ==
    [k \in (DOMAIN timers) \cup {o} |-> IF k = o THEN id ELSE timers[k]]

\* as _manage_order_timer, the Filled branch deleting the entry without
\* cancelling the task
_manage_order_timer_NoCancelOnFill(data, ts, timers, t_now) ==
    LET order_no == data.order_no IN
    IF data.order_status = "jeopsu" THEN
        [tasks |-> (IF order_no \in DOMAIN timers
                    THEN Cancel(ts, timers[order_no]) ELSE ts)
                   \cup {NewTimerTask(data, ts, t_now)},
         order_timers |-> WithTimer(timers, order_no, FreshId(ts))]
    ELSE IF data.order_status = "chegyeol" /\ order_no \in DOMAIN timers THEN
        [tasks |-> ts, order_timers |-> Without(timers, order_no)]
    ELSE [tasks |-> ts, order_timers |-> timers]

\* as _manage_order_timer, the Received branch not cancelling the old task
_manage_order_timer_NoCancelOnRearm(data, ts, timers, t_now) ==
    LET order_no == data.order_no IN
    IF data.order_status = "jeopsu" THEN
        [tasks |-> ts \cup {NewTimerTask(data, ts, t_now)},
         order_timers |-> WithTimer(timers, order_no, FreshId(ts))]
    ELSE IF data.order_status = "chegyeol" /\ order_no \in DOMAIN timers THEN
        [tasks |-> Cancel(ts, timers[order_no]),
         order_timers |-> Without(timers, order_no)]
    ELSE [tasks |-> ts, order_timers |-> timers]

\* as _manage_order_timer, the timer kept while a quantity remains
_manage_order_timer_FullFillOnly(data, ts, timers, t_now) ==
    LET order_no == data.order_no
        order_status == data.order_status
    IN  IF order_status = "jeopsu" THEN
            LET kept == IF order_no \in DOMAIN timers
                        THEN Cancel(ts, timers[order_no]) ELSE ts
                timer_task == NewTimerTask(data, ts, t_now)
            IN  [tasks |-> kept \cup {timer_task},
                 order_timers |-> WithTimer(timers, order_no, timer_task.id)]
        ELSE IF order_status = "chegyeol" /\ data.remain_qty = 0 THEN
            IF order_no \in DOMAIN timers
            THEN [tasks |-> Cancel(ts, timers[order_no]),
                  order_timers |-> Without(timers, order_no)]
            ELSE [tasks |-> ts, order_timers |-> timers]
        ELSE [tasks |-> ts, order_timers |-> timers]

\* _manage_order_timer: the new values of the pending tasks and of order_timers
_manage_order_timer(data, ts, timers, t_now) ==
    LET order_no == data.order_no
        order_status == data.order_status
    IN  IF order_status = "jeopsu" THEN
            LET kept == IF order_no \in DOMAIN timers
                        THEN Cancel(ts, timers[order_no]) ELSE ts
                timer_task == NewTimerTask(data, ts, t_now)
            IN  [tasks |-> kept \cup {timer_task},
                 order_timers |-> WithTimer(timers, order_no, timer_task.id)]
        ELSE IF order_status = "chegyeol" THEN
            IF order_no \in DOMAIN timers
            THEN [tasks |-> Cancel(ts, timers[order_no]),
                  order_timers |-> Without(timers, order_no)]
            ELSE [tasks |-> ts, order_timers |-> timers]
        ELSE [tasks |-> ts, order_timers |-> timers]

\* as _order_timeout, the entry left in order_timers
_order_timeout_KeepEntry(order_no, timers) == timers

\* as SleepOver, a sleep of half the duration
SleepOver_Short(t, t_now) == t_now >= t.armed_at + (TIMEOUT \div 2)

\* _order_timeout after its sleep: order_timers once the entry is deleted
_order_timeout(order_no, timers) ==
    IF order_no \in DOMAIN timers THEN Without(timers, order_no) ELSE timers

\* asyncio.sleep(300) of the task t is over
SleepOver(t, t_now) == t_now >= t.armed_at + TIMEOUT

(* ------------------------------------------------------------------------ *)
(* Routing of one record of a REAL frame                                    *)
(* ------------------------------------------------------------------------ *)

\* as _handle_realtime_data, the handler of an order record invoked with the
\* supervisor not called yet
_handle_realtime_data_HandlerFirst(data, ts, timers, cbs, t_now) ==
    LET rt_type == Get(data, "type", "") IN
    IF rt_type \in {"04", "00"} THEN
        [tasks |-> ts, order_timers |-> timers,
         parsed |-> _parse_order_execution(data), balance |-> NoBalance,
         handler |-> IF "order_execution" \in cbs THEN "order_execution" ELSE "none"]
    ELSE IF rt_type = "05" THEN
        [tasks |-> ts, order_timers |-> timers, parsed |-> NoRecord,
         balance |-> _parse_balance(data),
         handler |-> IF "balance_update" \in cbs THEN "balance_update" ELSE "none"]
    ELSE
        [tasks |-> ts, order_timers |-> timers, parsed |-> NoRecord,
         balance |-> NoBalance, handler |-> "none"]

\* The body of the for loop of _handle_realtime_data up to the await of the
\* handler: the timer state the handler is invoked in, and the handler
\* ("none" when the record has no registered handler or no branch).
_handle_realtime_data(data, ts, timers, cbs, t_now) ==
    LET rt_type == Get(data, "type", "") IN
    IF rt_type \in {"04", "00"} THEN
        LET parsed_data == _parse_order_execution(data)
            m == _manage_order_timer(parsed_data, ts, timers, t_now)
        IN  [tasks |-> m.tasks, order_timers |-> m.order_timers,
             parsed |-> parsed_data, balance |-> NoBalance,
             handler |-> IF "order_execution" \in cbs
                         THEN "order_execution" ELSE "none"]
    ELSE IF rt_type = "05" THEN
        [tasks |-> ts, order_timers |-> timers, parsed |-> NoRecord,
         balance |-> _parse_balance(data),
         handler |-> IF "balance_update" \in cbs THEN "balance_update" ELSE "none"]
    ELSE
        [tasks |-> ts, order_timers |-> timers, parsed |-> NoRecord,
         balance |-> NoBalance, handler |-> "none"]

\* The exception of a handler leaves _handle_realtime_data and is caught by
\* "except Exception" of receive_messages: the records of the frame that the
\* for loop of _handle_realtime_data had not reached yet
RecordsAfterHandlerError(rest) == <<>>

(* ------------------------------------------------------------------------ *)
(* TradingConfig: the trading window                                        *)
(* ------------------------------------------------------------------------ *)

START_HOUR == 9
START_MINUTE == 1
END_HOUR == 15
END_MINUTE == 30

\* datetime.time(hour, minute): seconds and microseconds are 0
time(hour, minute) ==
    [hour |-> hour, minute |-> minute, second |-> 0, microsecond |-> 0]

\* a value of datetime.now(); weekday as datetime.weekday(), 0 for Monday
datetime(weekday, hour, minute, second, microsecond) ==
    [weekday |-> weekday, hour |-> hour, minute |-> minute, second |-> second,
     microsecond |-> microsecond]

\* a <= b of two datetime.time values: hour, minute, second and microsecond
\* are compared in this order
TimeLE(a, b) ==
    \/ a.hour < b.hour
    \/ a.hour = b.hour /\ a.minute < b.minute
    \/ a.hour = b.hour /\ a.minute = b.minute /\ a.second < b.second
    \/ /\ a.hour = b.hour /\ a.minute = b.minute /\ a.second = b.second
       /\ a.microsecond <= b.microsecond

\* as is_trading_time, the end of the window left out
is_trading_time_EndExclusive(dt) ==
    IF dt.weekday >= 5 THEN FALSE
    ELSE /\ TimeLE(time(START_HOUR, START_MINUTE), dt)
         /\ ~TimeLE(time(END_HOUR, END_MINUTE), dt)

\* is_trading_time() when datetime.now() returns dt
is_trading_time(dt) ==
    IF dt.weekday >= 5 THEN FALSE
    ELSE /\ TimeLE(time(START_HOUR, START_MINUTE), dt)
         /\ TimeLE(dt, time(END_HOUR, END_MINUTE))

\* times of day around the edges of the window
EdgeTimes ==
    {<<0, 0, 0, 0>>, <<9, 0, 59, 0>>, <<9, 0, 59, 999999>>, <<9, 1, 0, 0>>,
     <<9, 1, 0, 1>>, <<12, 0, 0, 0>>, <<15, 29, 59, 999999>>, <<15, 30, 0, 0>>,
     <<15, 30, 0, 1>>, <<15, 30, 1, 0>>, <<23, 59, 59, 999999>>}

Instants == {datetime(wd, t[1], t[2], t[3], t[4]) : wd \in 0..6, t \in EdgeTimes}

\* a Monday before the window opens and a Monday inside the window
BeforeOpen == datetime(0, 0, 0, 0, 0)
MainInstants == {BeforeOpen, datetime(0, 12, 0, 0, 0)}

(* ------------------------------------------------------------------------ *)
(* KiwoomApiClient: liquidation                                             *)
(* ------------------------------------------------------------------------ *)

StockCodes == <<"005930", "000660", "035420">>

\* the holdings the account answer may list for the i-th stock of the model:
\* 'stk_cd' is the code behind the prefix "A", 'rmnd_qty' spells a quantity
\* of 10 or of 0, and 'cur_prc' a price of 7, of 0 or with a minus sign
HoldingsOf(i) ==
    {[stk_cd |-> <<"A", StockCodes[i]>>, rmnd_qty |-> PyStr(q), cur_prc |-> PyStr(c)] :
        q \in {<<"1", "0">>, <<"0">>}, c \in {<<"7">>, <<"0">>, <<"-", "7">>}}
    \ {[stk_cd |-> <<"A", StockCodes[i]>>, rmnd_qty |-> PyStr(<<"0">>),
         cur_prc |-> PyStr(c)] : c \in {<<"0">>, <<"-", "7">>}}

\* 'stk_acnt_evlt_prst' of the account answer: at most MaxPositions holdings
HoldingLists ==
    UNION {{h \in [1..n -> UNION {HoldingsOf(i) : i \in 1..n}] :
               \A i \in 1..n : h[i] \in HoldingsOf(i)} : n \in 0..MaxPositions}

\* str.lstrip('AJQK') of a stock code
RECURSIVE lstrip_AJQK(_)
lstrip_AJQK(code) ==
    IF code # <<>> /\ Head(code) \in {"A", "J", "Q", "K"}
    THEN lstrip_AJQK(Tail(code)) ELSE code

\* as get_sellable_positions, every holding with a positive quantity kept
RECURSIVE get_sellable_positions_AnyPrice(_)
get_sellable_positions_AnyPrice(stk_list) ==
    IF stk_list = <<>> THEN <<>>
    ELSE LET item == Head(stk_list)
             quantity == IntOf(item.rmnd_qty)
             current_price == IntOf(item.cur_prc)
         IN  (IF quantity > 0
              THEN <<[stock_code |-> lstrip_AJQK(item.stk_cd),
                      quantity |-> quantity, price |-> current_price]>>
              ELSE <<>>)
             \o get_sellable_positions_AnyPrice(Tail(stk_list))

\* get_sellable_positions() when the account answer lists stk_list: the
\* holdings with a positive quantity and a positive current price
RECURSIVE get_sellable_positions(_)
get_sellable_positions(stk_list) ==
    IF stk_list = <<>> THEN <<>>
    ELSE LET item == Head(stk_list)
             quantity == IntOf(item.rmnd_qty)
             current_price == IntOf(item.cur_prc)
         IN  (IF quantity > 0 /\ current_price > 0
              THEN <<[stock_code |-> lstrip_AJQK(item.stk_cd),
                      quantity |-> quantity, price |-> current_price]>>
              ELSE <<>>)
             \o get_sellable_positions(Tail(stk_list))

\* the 'success' of the results of limit_sell, one per sellable position
SellOutcomes(stk_list) == [DOMAIN get_sellable_positions(stk_list) -> BOOLEAN]

\* the limit_sell of one position and the asyncio.sleep(0.5) after it
SellAndPause(pos) == <<[op |-> "limit_sell", position |-> pos],
                       [op |-> "sleep", position |-> pos]>>

RECURSIVE SellEach(_)
SellEach(positions) ==
    IF positions = <<>> THEN <<>>
    ELSE SellAndPause(Head(positions)) \o SellEach(Tail(positions))

RECURSIVE SellEach_Retry(_, _)
SellEach_Retry(positions, success) ==
    IF positions = <<>> THEN <<>>
    ELSE (IF success[1] THEN SellAndPause(Head(positions))
          ELSE SellAndPause(Head(positions)) \o SellAndPause(Head(positions)))
         \o SellEach_Retry(Tail(positions),
                           [i \in 1..(Len(positions) - 1) |-> success[i + 1]])

\* as sell_all_positions, a failed sell requested a second time
sell_all_positions_Retry(stk_list, success) ==
    LET positions == get_sellable_positions(stk_list)
    IN  [holdings |-> stk_list,
         events   |-> SellEach_Retry(positions, success),
         results  |-> [i \in DOMAIN positions |->
                          [stock_code |-> positions[i].stock_code,
                           success |-> success[i]]]]

\* sell_all_positions() when the account answer lists stk_list and limit_sell
\* reports success[i] for the i-th sellable position: the calls it makes, in
\* their order, and the results it returns
sell_all_positions(stk_list, success) ==
    LET positions == get_sellable_positions(stk_list)
    IN  [holdings |-> stk_list,
         events   |-> SellEach(positions),
         results  |-> [i \in DOMAIN positions |->
                          [stock_code |-> positions[i].stock_code,
                           success |-> success[i]]]]

\* no liquidation
NoSale == [holdings |-> <<>>, events |-> <<>>, results |-> <<>>]

(* ------------------------------------------------------------------------ *)
(* State                                                                    *)
(* ------------------------------------------------------------------------ *)

NoText == [kind |-> "none", doc |-> EmptyDict, layout |-> "none"]
Label(op) == [op |-> op, rt_type |-> "", order_no |-> "", status |-> "",
              rearm |-> FALSE, code |-> 0, text |-> NoText,
              data |-> EmptyDict, parsed |-> NoRecord, sold |-> NoSale,
              balance |-> NoBalance]

\* hist[o], the events of the order o as they were processed:
\*   waiting      a Received was processed and neither a Filled nor a timeout
\*                notification has followed it
\*   received_at  when that Received was processed (0 when not waiting)
\*   fill         whether a Filled followed the latest Received while it was
\*                waiting: "in_time" when no more than TIMEOUT had elapsed,
\*                "late" when more had
\*   notified     the timeout notifications since the latest Received
NoHist == [waiting |-> FALSE, received_at |-> 0, fill |-> "none", notified |-> 0]

FillClass(waited) == IF waited <= TIMEOUT THEN "in_time" ELSE "late"

HistAfter(h, data, t_now) ==
    LET o == data.order_no IN
    IF o \notin OrderNos THEN h
    ELSE IF data.order_status = "jeopsu" THEN
        [h EXCEPT ![o] = [waiting |-> TRUE, received_at |-> t_now,
                          fill |-> "none", notified |-> 0]]
    ELSE IF data.order_status = "chegyeol" /\ h[o].waiting THEN
        [h EXCEPT ![o] = [waiting |-> FALSE, received_at |-> 0,
                          fill |-> FillClass(t_now - h[o].received_at),
                          notified |-> h[o].notified]]
    ELSE h

HistNotified(h, o) ==
    [h EXCEPT ![o] = [waiting |-> FALSE, received_at |-> 0, fill |-> h[o].fill,
                      notified |-> h[o].notified + 1]]

\* "while self.is_connected" at the top of receive_messages
LoopTop(connected) == IF connected THEN "recv" ELSE "done"

\* the receive task is at an await, or not running
Suspended == pc \in {"none", "recv", "handler", "done"}

Tokens == {"tok"}

Init ==
    /\ now = 0
    /\ websocket = "None"
    /\ is_connected = FALSE
    /\ callbacks = {}
    /\ order_timers = EmptyDict
    /\ tasks = {}
    /\ pc = "none"
    /\ pending = <<>>
    /\ cur = "none"
    /\ sent = <<>>
    /\ hist = [o \in OrderNos |-> NoHist]
    /\ last = Label("none")
    /\ subscriptions = <<>>
    /\ account_no = "81234567"
    /\ transports = <<>>
    /\ loops = {}
    /\ is_trading_active = FALSE
    /\ datetime_now = BeforeOpen
    /\ in_window = is_trading_time(datetime_now)
    /\ polled = FALSE
    /\ overnight = TRUE
    /\ has_controller = FALSE
    /\ trading_task = "unset"
    /\ mpc = "init"
    /\ closing = FALSE
    /\ trace = <<>>

(* ------------------------------------------------------------------------ *)
(* Clock and timer tasks                                                    *)
(* ------------------------------------------------------------------------ *)

Tick ==
    /\ UNCHANGED <<subvars, mainvars>>
    /\ Suspended
    /\ now + ClockStep <= MaxTime
    /\ now' = now + ClockStep
    /\ sent' = <<>>
    /\ last' = Label("tick")
    /\ UNCHANGED <<websocket, is_connected, callbacks, order_timers, tasks, pc,
                   pending, cur, hist>>

\* _order_timeout resumes after its sleep: the notification is logged and the
\* entry of the order deleted
Expire(t) ==
    /\ UNCHANGED <<subvars, mainvars>>
    /\ Suspended
    /\ t \in tasks
    /\ SleepOver(t, now)
    /\ tasks' = tasks \ {t}
    /\ order_timers' = _order_timeout(t.order_no, order_timers)
    /\ hist' = HistNotified(hist, t.order_no)
    /\ sent' = <<>>
    /\ last' = [Label("expire") EXCEPT !.order_no = t.order_no]
    /\ UNCHANGED <<now, websocket, is_connected, callbacks, pc, pending, cur>>

(* ------------------------------------------------------------------------ *)
(* Connection                                                               *)
(* ------------------------------------------------------------------------ *)

login_data(access_token) == ("trnm" :> "LOGIN") @@ ("token" :> access_token)

\* as disconnect, the transport closed and the flag left as it is
disconnect_KeepsFlag(ws, connected) ==
    IF ws # "None" THEN [websocket |-> "closed", is_connected |-> connected]
    ELSE [websocket |-> ws, is_connected |-> connected]

\* disconnect(): the new values of self.websocket and self.is_connected
disconnect(ws, connected) ==
    IF ws # "None" THEN [websocket |-> "closed", is_connected |-> FALSE]
    ELSE [websocket |-> ws, is_connected |-> connected]

\* as _handle_login, a code below 0 taken for a success
_handle_login_NegativeIsOk(return_code, ws, connected) ==
    IF return_code <= 0 THEN [websocket |-> ws, is_connected |-> connected]
    ELSE disconnect(ws, connected)

\* _handle_login
_handle_login(return_code, ws, connected) ==
    IF return_code = 0 THEN [websocket |-> ws, is_connected |-> connected]
    ELSE disconnect(ws, connected)

\* as PingReply, a reply of the frame kind alone
PingReply_KindOnly(message) == json_dumps(("trnm" :> json_loads(message)["trnm"]))

\* the answer of the loop to a PING frame
PingReply(message) == json_dumps(json_loads(message))

\* as Connect, the receive task never created
Connect_NoReceiveTask ==
    /\ UNCHANGED <<subvars, mainvars>>
    /\ Suspended
    /\ ~is_connected
    /\ pc \in {"none", "done"}
    /\ \E access_token \in Tokens :
          sent' = <<json_dumps(login_data(access_token))>>
    /\ websocket' = "open"
    /\ is_connected' = TRUE
    /\ last' = Label("connect")
    /\ UNCHANGED <<now, callbacks, order_timers, tasks, pc, pending, cur, hist>>

\* connect() with the token fetched and the transport established.  It is
\* called as connect_websocket of main.py calls it, when not connected, and
\* when no receive task of an earlier connection is left.
Connect ==
    /\ UNCHANGED <<subvars, mainvars>>
    /\ Suspended
    /\ ~is_connected
    /\ pc \in {"none", "done"}
    /\ \E access_token \in Tokens :
          sent' = <<json_dumps(login_data(access_token))>>
    /\ websocket' = "open"
    /\ is_connected' = TRUE
    /\ pc' = "recv"
    /\ last' = Label("connect")
    /\ UNCHANGED <<now, callbacks, order_timers, tasks, pending, cur, hist>>

\* as ConnectFail, the receive task created before the transport is there
ConnectFail_LoopStarted ==
    /\ UNCHANGED <<subvars, mainvars>>
    /\ Suspended
    /\ ~is_connected
    /\ pc \in {"none", "done"}
    /\ is_connected' = FALSE
    /\ pc' = "recv"
    /\ sent' = <<>>
    /\ last' = Label("connect_fail")
    /\ UNCHANGED <<now, websocket, callbacks, order_timers, tasks, pending, cur, hist>>

\* connect() when get_access_token or websockets.connect raises
ConnectFail ==
    /\ UNCHANGED <<subvars, mainvars>>
    /\ Suspended
    /\ ~is_connected
    /\ pc \in {"none", "done"}
    /\ is_connected' = FALSE
    /\ sent' = <<>>
    /\ last' = Label("connect_fail")
    /\ UNCHANGED <<now, websocket, callbacks, order_timers, tasks, pc, pending,
                   cur, hist>>

\* as Disconnect, the timers cancelled and forgotten with the connection
Disconnect_CancelsTimers ==
    /\ UNCHANGED <<subvars, mainvars>>
    /\ Suspended
    /\ LET d == disconnect(websocket, is_connected)
       IN  /\ websocket' = d.websocket
           /\ is_connected' = d.is_connected
    /\ tasks' = {}
    /\ order_timers' = EmptyDict
    /\ sent' = <<>>
    /\ last' = [Label("disconnect") EXCEPT !.status = websocket]
    /\ UNCHANGED <<now, callbacks, pc, pending, cur, hist>>

Disconnect ==
    /\ UNCHANGED <<subvars, mainvars>>
    /\ Suspended
    /\ LET d == disconnect(websocket, is_connected)
       IN  /\ websocket' = d.websocket
           /\ is_connected' = d.is_connected
    /\ sent' = <<>>
    /\ last' = [Label("disconnect") EXCEPT !.status = websocket]
    /\ UNCHANGED <<now, callbacks, order_timers, tasks, pc, pending, cur, hist>>

RegisterCallback(event_type) ==
    /\ UNCHANGED <<subvars, mainvars>>
    /\ Suspended
    /\ callbacks' = callbacks \cup {event_type}
    /\ sent' = <<>>
    /\ last' = Label("register")
    /\ UNCHANGED <<now, websocket, is_connected, order_timers, tasks, pc, pending,
                   cur, hist>>

(* ------------------------------------------------------------------------ *)
(* Subscriptions                                                            *)
(* ------------------------------------------------------------------------ *)

\* account_no comes from the environment; "" stands for unset or empty
AccountNos == {"", "81234567"}

subscribe_data(grp_no, acct, rt_type) ==
    ("trnm" :> "REG") @@ ("grp_no" :> grp_no) @@ ("refresh" :> "Y")
    @@ ("data" :> <<[item |-> <<acct>>, type |-> <<rt_type>>]>>)

\* The body that subscribe_order_execution and subscribe_account_balance
\* share: what is sent, the new subscriptions, and whether websocket.send
\* raised ConnectionClosed because the transport was closed under a flag
\* that still says connected.
subscribe(grp_no, rt_type, name, acct, ws, connected, subs) ==
    IF acct = "" THEN [sent |-> <<>>, subscriptions |-> subs, raised |-> FALSE]
    ELSE IF ws # "None" /\ connected THEN
        IF ws = "open"
        THEN [sent |-> <<json_dumps(subscribe_data(grp_no, acct, rt_type))>>,
              subscriptions |-> Append(subs, name), raised |-> FALSE]
        ELSE [sent |-> <<>>, subscriptions |-> subs, raised |-> TRUE]
    ELSE [sent |-> <<>>, subscriptions |-> subs, raised |-> FALSE]

\* as subscribe_order_execution, the subscription recorded before the checks
subscribe_order_execution_RecordsFirst(acct, ws, connected, subs) ==
    [subscribe("0001", "00", "order_execution", acct, ws, connected, subs)
        EXCEPT !.subscriptions = Append(subs, "order_execution")]

subscribe_order_execution(acct, ws, connected, subs) ==
    subscribe("0001", "00", "order_execution", acct, ws, connected, subs)

subscribe_account_balance(acct, ws, connected, subs) ==
    subscribe("0002", "04", "balance", acct, ws, connected, subs)

\* a call of one of the two, r its outcome
Subscribed(name, r) ==
    /\ UNCHANGED mainvars
    /\ Suspended
    /\ Len(subscriptions) < MaxSubs
    /\ sent' = r.sent
    /\ subscriptions' = r.subscriptions
    /\ last' = [Label("subscribe") EXCEPT !.status = name, !.rearm = r.raised]
    /\ UNCHANGED <<now, websocket, is_connected, callbacks, order_timers, tasks, pc,
                   pending, cur, hist, account_no, loopvars>>

SubscribeOrderExecution ==
    Subscribed("order_execution",
               subscribe_order_execution(account_no, websocket, is_connected,
                                         subscriptions))

SubscribeAccountBalance ==
    Subscribed("balance",
               subscribe_account_balance(account_no, websocket, is_connected,
                                         subscriptions))

(* ------------------------------------------------------------------------ *)
(* receive_messages                                                         *)
(* ------------------------------------------------------------------------ *)

\* websocket.recv() returns a frame
Receiving == pc = "recv" /\ websocket = "open"

RecvLogin(c) ==
    /\ UNCHANGED <<subvars, mainvars>>
    /\ Receiving
    /\ LET r == _handle_login(c, websocket, is_connected)
       IN  /\ websocket' = r.websocket
           /\ is_connected' = r.is_connected
           /\ pc' = LoopTop(r.is_connected)
    /\ sent' = <<>>
    /\ last' = [Label("login") EXCEPT !.code = c]
    /\ UNCHANGED <<now, callbacks, order_timers, tasks, pending, cur, hist>>

RecvPing(message) ==
    /\ UNCHANGED <<subvars, mainvars>>
    /\ Receiving
    /\ sent' = <<PingReply(message)>>
    /\ pc' = LoopTop(is_connected)
    /\ last' = [Label("ping") EXCEPT !.text = message]
    /\ UNCHANGED <<now, websocket, is_connected, callbacks, order_timers, tasks,
                   pending, cur, hist>>

\* as RecvReg, a failed registration handled as a rejected login is
RecvReg_FailureDisconnects(c) ==
    /\ UNCHANGED <<subvars, mainvars>>
    /\ Receiving
    /\ is_connected' = IF c = 0 THEN is_connected ELSE FALSE
    /\ pc' = LoopTop(is_connected')
    /\ sent' = <<>>
    /\ last' = [Label("reg") EXCEPT !.code = c]
    /\ UNCHANGED <<now, websocket, callbacks, order_timers, tasks,
                   pending, cur, hist>>

\* a REG frame with return_code c: logged as a success or as a failure
RecvReg(c) ==
    /\ UNCHANGED <<subvars, mainvars>>
    /\ Receiving
    /\ pc' = LoopTop(is_connected)
    /\ sent' = <<>>
    /\ last' = [Label("reg") EXCEPT !.code = c]
    /\ UNCHANGED <<now, websocket, is_connected, callbacks, order_timers, tasks,
                   pending, cur, hist>>

RecvSystem(code) ==
    /\ UNCHANGED <<subvars, mainvars>>
    /\ Receiving
    /\ is_connected' = IF HasR10004(code) THEN FALSE ELSE is_connected
    /\ pc' = IF HasR10004(code) THEN "done" ELSE LoopTop(is_connected)
    /\ sent' = <<>>
    /\ last' = [Label("system") EXCEPT !.status = code]
    /\ UNCHANGED <<now, websocket, callbacks, order_timers, tasks, pending, cur, hist>>

\* a frame of a kind no branch knows, or without trnm
RecvOther(trnm) ==
    /\ UNCHANGED <<subvars, mainvars>>
    /\ Receiving
    /\ pc' = LoopTop(is_connected)
    /\ sent' = <<>>
    /\ last' = [Label("other") EXCEPT !.status = trnm]
    /\ UNCHANGED <<now, websocket, is_connected, callbacks, order_timers, tasks,
                   pending, cur, hist>>

\* as RecvJunk, the decode error handled as the closed transport is
RecvJunk_EndsLoop ==
    /\ UNCHANGED <<subvars, mainvars>>
    /\ Receiving
    /\ is_connected' = FALSE
    /\ pc' = "done"
    /\ sent' = <<>>
    /\ last' = Label("junk")
    /\ UNCHANGED <<now, websocket, callbacks, order_timers, tasks, pending, cur, hist>>

\* a text json.loads rejects (JSONDecodeError), or a binary message, whose
\* .get raises into "except Exception"
RecvJunk ==
    /\ UNCHANGED <<subvars, mainvars>>
    /\ Receiving
    /\ pc' = LoopTop(is_connected)
    /\ sent' = <<>>
    /\ last' = Label("junk")
    /\ UNCHANGED <<now, websocket, is_connected, callbacks, order_timers, tasks,
                   pending, cur, hist>>

\* the transport is closed by the peer or lost, while every task is suspended
TransportCloses ==
    /\ UNCHANGED <<subvars, mainvars>>
    /\ Suspended
    /\ websocket = "open"
    /\ websocket' = "closed"
    /\ sent' = <<>>
    /\ last' = Label("transport_closes")
    /\ UNCHANGED <<now, is_connected, callbacks, order_timers, tasks, pc, pending,
                   cur, hist>>

\* a PING frame is read and the transport is closed before the answer is
\* written: websocket.send raises ConnectionClosed
RecvPingClosed(message) ==
    /\ UNCHANGED <<subvars, mainvars>>
    /\ Receiving
    /\ websocket' = "closed"
    /\ is_connected' = FALSE
    /\ pc' = "done"
    /\ sent' = <<>>
    /\ last' = [Label("ping_closed") EXCEPT !.text = message]
    /\ UNCHANGED <<now, callbacks, order_timers, tasks, pending, cur, hist>>

\* as RecvClosed, the exception logged and the loop going on
RecvClosed_KeepsLooping ==
    /\ UNCHANGED <<subvars, mainvars>>
    /\ pc = "recv"
    /\ websocket' = "closed"
    /\ pc' = LoopTop(is_connected)
    /\ sent' = <<>>
    /\ last' = Label("closed")
    /\ UNCHANGED <<now, is_connected, callbacks, order_timers, tasks, pending, cur,
                   hist>>

\* websocket.recv() raises ConnectionClosed
RecvClosed ==
    /\ UNCHANGED <<subvars, mainvars>>
    /\ pc = "recv"
    /\ websocket' = "closed"
    /\ is_connected' = FALSE
    /\ pc' = "done"
    /\ sent' = <<>>
    /\ last' = Label("closed")
    /\ UNCHANGED <<now, callbacks, order_timers, tasks, pending, cur, hist>>

\* One turn of the for loop of _handle_realtime_data on the records data_list
\* still to route: up to the await of the handler of the first record, or to
\* the next turn when no handler is awaited.
RouteHead(data_list) ==
    /\ UNCHANGED <<subvars, mainvars>>
    /\ Cardinality(tasks) < MaxTasks
    /\ \E data \in {Head(data_list)} :
       \E r \in {_handle_realtime_data(data, tasks, order_timers, callbacks, now)} :
           /\ tasks' = r.tasks
           /\ order_timers' = r.order_timers
           /\ hist' = HistAfter(hist, r.parsed, now)
           /\ pending' = Tail(data_list)
           /\ cur' = r.handler
           /\ pc' = IF r.handler # "none" THEN "handler"
                    ELSE IF Tail(data_list) = <<>> THEN LoopTop(is_connected)
                    ELSE "route"
           /\ last' = [Label("route") EXCEPT
                         !.rt_type = Get(data, "type", ""),
                         !.order_no = r.parsed.order_no,
                         !.rearm = (r.parsed.order_no \in OrderNos
                                    /\ r.parsed.order_status = "jeopsu"
                                    /\ hist[r.parsed.order_no].waiting),
                         !.status = Get(Get(data, "values", EmptyDict), "913", NoStatus),
                         !.data = data,
                         !.parsed = r.parsed,
                         !.balance = r.balance]
    /\ sent' = <<>>
    /\ UNCHANGED <<now, websocket, is_connected, callbacks>>

\* a REAL frame arrives: its first record is routed without any await between
RecvReal(data_list) ==
    /\ Receiving
    /\ data_list # <<>>
    /\ RouteHead(data_list)

\* a REAL frame without records, or without 'data'
RecvRealEmpty ==
    /\ UNCHANGED <<subvars, mainvars>>
    /\ Receiving
    /\ pc' = LoopTop(is_connected)
    /\ sent' = <<>>
    /\ last' = Label("real_empty")
    /\ UNCHANGED <<now, websocket, is_connected, callbacks, order_timers, tasks,
                   pending, cur, hist>>

\* the for loop goes on to the next record
RouteRecord ==
    /\ pc = "route"
    /\ pending # <<>>
    /\ RouteHead(pending)

\* where the loop is after a handler is over, with the records rest to route
AfterHandler(rest, connected) == IF rest = <<>> THEN LoopTop(connected) ELSE "route"

\* the awaited handler returns
HandlerReturns ==
    /\ UNCHANGED <<subvars, mainvars>>
    /\ pc = "handler"
    /\ cur' = "none"
    /\ pc' = AfterHandler(pending, is_connected)
    /\ sent' = <<>>
    /\ last' = [Label("handler_return") EXCEPT !.rt_type = cur]
    /\ UNCHANGED <<now, websocket, is_connected, callbacks, order_timers, tasks,
                   pending, hist>>

\* the awaited handler raises
HandlerRaises ==
    /\ UNCHANGED <<subvars, mainvars>>
    /\ pc = "handler"
    /\ cur' = "none"
    /\ pending' = RecordsAfterHandlerError(pending)
    /\ pc' = AfterHandler(pending', is_connected)
    /\ sent' = <<>>
    /\ last' = [Label("handler_raise") EXCEPT !.rt_type = cur]
    /\ UNCHANGED <<now, websocket, is_connected, callbacks, order_timers, tasks, hist>>

\* the connection with every kind of frame, its REAL frames about one order
Next ==
    \/ Tick
    \/ \E t \in tasks : Expire(t)
    \/ Connect
    \/ ConnectFail
    \/ Disconnect
    \/ \E event_type \in {"order_execution", "balance_update"} :
          RegisterCallback(event_type)
    \/ \E c \in ReturnCodes : RecvLogin(c)
    \/ \E d \in PingDocs, layout \in Layouts : RecvPing(WireText(d, layout))
    \/ \E data_list \in FewRealData : RecvReal(data_list)
    \/ RecvRealEmpty
    \/ \E c \in ReturnCodes : RecvReg(c)
    \/ \E code \in SystemCodes : RecvSystem(code)
    \/ \E trnm \in OtherKinds : RecvOther(trnm)
    \/ RecvJunk
    \/ TransportCloses
    \/ \E d \in PingDocs, layout \in Layouts : RecvPingClosed(WireText(d, layout))
    \/ RecvClosed
    \/ RouteRecord
    \/ HandlerReturns
    \/ HandlerRaises

Spec == Init /\ [][Next]_vars

\* the router under order records with missing and malformed fields
NextDecode ==
    \/ Connect
    \/ RegisterCallback("order_execution")
    \/ \E data_list \in DecodeRealData : RecvReal(data_list)
    \/ RouteRecord
    \/ HandlerReturns
    \/ RecvClosed

SpecDecode == Init /\ [][NextDecode]_vars

\* the router under balance records with missing and malformed fields
NextBalance ==
    \/ Connect
    \/ RegisterCallback("balance_update")
    \/ \E data_list \in BalanceRealData : RecvReal(data_list)
    \/ RouteRecord
    \/ HandlerReturns
    \/ RecvClosed

SpecBalance == Init /\ [][NextBalance]_vars

(* ------------------------------------------------------------------------ *)
(* The receive tasks of one connection object                               *)
(* ------------------------------------------------------------------------ *)

\* connect() is called at most MaxTransports times
MaxTransports == 3

\* self.websocket: the transport created last (0 before the first)
Current == Len(transports)

\* a receive task: 'born' is the transport connect() had created when it
\* created the task, 'at' the await the task is suspended in ("recv",
\* "handler" for a callback, "closing" for the disconnect() of _handle_login)
\* and 'on' the transport whose recv() it awaits
Loop(born, at, on) == [born |-> born, at |-> at, on |-> on]

\* a task whose recv() has ConnectionClosed to raise: it runs before a later
\* connect() has its transport
Ready(l) == l.at = "recv" /\ transports[l.on] = "closed"

\* the loop l back at "while self.is_connected" with the flag at connected:
\* it awaits self.websocket.recv() of the transport of that moment, or ends
AtLoopTop(l, connected) ==
    IF connected THEN (loops \ {l}) \cup {Loop(l.born, "recv", Current)}
    ELSE loops \ {l}

\* what the actions of the receive tasks leave alone
LoopQuiet ==
    /\ sent' = <<>>
    /\ UNCHANGED <<subscriptions, account_no, mainvars, timervars, callbacks, pc>>

\* connect() called as connect_websocket calls it, when not connected: the
\* transport is established, the task created and the login frame sent
LoopConnect ==
    /\ ~is_connected
    /\ Current < MaxTransports
    /\ \A l \in loops : ~Ready(l)
    /\ transports' = Append(transports, "open")
    /\ websocket' = "open"
    /\ is_connected' = TRUE
    /\ loops' = loops \cup {Loop(Current + 1, "recv", Current + 1)}
    /\ last' = Label("loop_connect")
    /\ LoopQuiet

\* connect() when the send of the login frame raises: the transport is lost,
\* the task has been created and the flag is cleared
LoopLoginSendFails ==
    /\ ~is_connected
    /\ Current < MaxTransports
    /\ \A l \in loops : ~Ready(l)
    /\ transports' = Append(transports, "closed")
    /\ websocket' = "closed"
    /\ is_connected' = FALSE
    /\ loops' = loops \cup {Loop(Current + 1, "recv", Current + 1)}
    /\ last' = Label("loop_connect_fail")
    /\ LoopQuiet

\* disconnect() called from outside the receive task
LoopDisconnect ==
    /\ Current > 0
    /\ LET d == disconnect(websocket, is_connected)
       IN  /\ websocket' = d.websocket
           /\ is_connected' = d.is_connected
    /\ transports' = [transports EXCEPT ![Current] = "closed"]
    /\ loops' = loops
    /\ last' = Label("loop_disconnect")
    /\ LoopQuiet

\* the peer closes the transport t
LoopTransportCloses(t) ==
    /\ t \in DOMAIN transports
    /\ transports[t] = "open"
    /\ transports' = [transports EXCEPT ![t] = "closed"]
    /\ websocket' = IF t = Current THEN "closed" ELSE websocket
    /\ UNCHANGED <<is_connected, loops>>
    /\ last' = Label("loop_transport_closes")
    /\ LoopQuiet

\* recv() of the task l returns a frame the task handles without an await
\* and without a change of the flag
LoopFrame(l) ==
    /\ l \in loops /\ l.at = "recv" /\ transports[l.on] = "open"
    /\ loops' = AtLoopTop(l, is_connected)
    /\ UNCHANGED <<transports, websocket, is_connected>>
    /\ last' = Label("loop_frame")
    /\ LoopQuiet

\* recv() of the task l returns a REAL frame with a record for a registered
\* callback: the task awaits the callback
LoopCallback(l) ==
    /\ l \in loops /\ l.at = "recv" /\ transports[l.on] = "open"
    /\ loops' = (loops \ {l}) \cup {Loop(l.born, "handler", l.on)}
    /\ UNCHANGED <<transports, websocket, is_connected>>
    /\ last' = Label("loop_callback")
    /\ LoopQuiet

\* the callback the task l awaits returns or raises
LoopCallbackEnds(l) ==
    /\ l \in loops /\ l.at = "handler"
    /\ loops' = AtLoopTop(l, is_connected)
    /\ UNCHANGED <<transports, websocket, is_connected>>
    /\ last' = Label("loop_callback_ends")
    /\ LoopQuiet

\* recv() of the task l returns a SYSTEM frame with R10004: flag cleared, break
LoopFatal(l) ==
    /\ l \in loops /\ l.at = "recv" /\ transports[l.on] = "open"
    /\ is_connected' = FALSE
    /\ loops' = loops \ {l}
    /\ UNCHANGED <<transports, websocket>>
    /\ last' = Label("loop_fatal")
    /\ LoopQuiet

\* recv() of the task l returns a rejected LOGIN: _handle_login awaits
\* disconnect(), which awaits the close() of self.websocket
LoopRejected(l) ==
    /\ l \in loops /\ l.at = "recv" /\ transports[l.on] = "open"
    /\ transports' = [transports EXCEPT ![Current] = "closed"]
    /\ websocket' = "closed"
    /\ loops' = (loops \ {l}) \cup {Loop(l.born, "closing", l.on)}
    /\ UNCHANGED is_connected
    /\ last' = Label("loop_rejected")
    /\ LoopQuiet

\* the close() the task l awaits returns: disconnect() clears the flag and
\* the while loop ends
LoopCloseReturns(l) ==
    /\ l \in loops /\ l.at = "closing"
    /\ is_connected' = FALSE
    /\ loops' = loops \ {l}
    /\ UNCHANGED <<transports, websocket>>
    /\ last' = Label("loop_close_returns")
    /\ LoopQuiet

\* recv() of the task l raises ConnectionClosed: flag cleared, break
LoopClosed(l) ==
    /\ l \in loops /\ Ready(l)
    /\ is_connected' = FALSE
    /\ loops' = loops \ {l}
    /\ UNCHANGED <<transports, websocket>>
    /\ last' = Label("loop_closed")
    /\ LoopQuiet

NextLoops ==
    \/ LoopConnect
    \/ LoopLoginSendFails
    \/ LoopDisconnect
    \/ \E t \in DOMAIN transports : LoopTransportCloses(t)
    \/ \E l \in loops : LoopFrame(l)
    \/ \E l \in loops : LoopCallback(l)
    \/ \E l \in loops : LoopCallbackEnds(l)
    \/ \E l \in loops : LoopFatal(l)
    \/ \E l \in loops : LoopRejected(l)
    \/ \E l \in loops : LoopCloseReturns(l)
    \/ \E l \in loops : LoopClosed(l)

SpecLoops == Init /\ [][NextLoops]_vars

\* the frames that are only logged, between subscriptions and order records
NextAck ==
    \/ Connect
    \/ RegisterCallback("order_execution")
    \/ SubscribeOrderExecution
    \/ \E data_list \in FewRealData : RecvReal(data_list)
    \/ RouteRecord
    \/ HandlerReturns
    \/ \E c \in ReturnCodes : RecvReg(c)
    \/ \E trnm \in OtherKinds : RecvOther(trnm)
    \/ RecvClosed

SpecAck == Init /\ [][NextAck]_vars

\* the supervisor and the router under every REAL frame of the model
NextSupervisor ==
    \/ Tick
    \/ \E t \in tasks : Expire(t)
    \/ Connect
    \/ Disconnect
    \/ RegisterCallback("order_execution")
    \/ \E data_list \in RealData : RecvReal(data_list)
    \/ RecvClosed
    \/ RouteRecord
    \/ HandlerReturns
    \/ HandlerRaises

SpecSupervisor == Init /\ [][NextSupervisor]_vars

\* the supervisor alone: frames of one order record, no handler registered
TimeoutRealData ==
    {<<[type |-> "00", values |-> OrderValues(o, st)]>> :
        o \in OrderNos, st \in {"jumun", "chegyeol", "hwagin"}}

NextTimeout ==
    \/ Tick
    \/ \E t \in tasks : Expire(t)
    \/ Connect
    \/ \E data_list \in TimeoutRealData : RecvReal(data_list)
    \/ RecvClosed

\* The event loop: the clock goes on, and a timer task whose sleep is over is
\* run (the ready queue is first in, first out).
ExpireOf(o) == \E t \in tasks : t.order_no = o /\ Expire(t)

FairTimeout ==
    /\ Init
    /\ [][NextTimeout]_vars
    /\ SF_vars(Tick)
    /\ \A o \in OrderNos : SF_vars(ExpireOf(o))

\* REAL frames of the order O1 with its quantities: a Received of 12, and
\* Filled records with executed and remaining quantities of 0, 5 and 12
PartialRealData ==
    {<<[type |-> "00",
        values |-> OrderValues("O1", "jumun") @@ ("900" :> PyStr(<<"1", "2">>))
                   @@ ("911" :> PyStr(<<"0">>)) @@ ("902" :> PyStr(<<"1", "2">>))]>>}
    \cup {<<[type |-> "00",
             values |-> OrderValues("O1", "chegyeol") @@ ("900" :> PyStr(<<"1", "2">>))
                        @@ ("911" :> PyStr(e)) @@ ("902" :> PyStr(r))]>> :
             e \in {<<"0">>, <<"5">>, <<"1", "2">>},
             r \in {<<"0">>, <<"5">>, <<"1", "2">>}}

\* the supervisor under fills of every executed and remaining quantity
NextPartial ==
    \/ Tick
    \/ \E t \in tasks : Expire(t)
    \/ Connect
    \/ \E data_list \in PartialRealData : RecvReal(data_list)
    \/ RecvClosed

SpecPartial == Init /\ [][NextPartial]_vars

\* the connection object as its callers use it: connect, subscribe,
\* disconnect, with the frames that decide the login and end the loop
InitApi ==
    /\ now = 0
    /\ websocket = "None"
    /\ is_connected = FALSE
    /\ callbacks = {}
    /\ order_timers = EmptyDict
    /\ tasks = {}
    /\ pc = "none"
    /\ pending = <<>>
    /\ cur = "none"
    /\ sent = <<>>
    /\ hist = [o \in OrderNos |-> NoHist]
    /\ last = Label("none")
    /\ subscriptions = <<>>
    /\ account_no \in AccountNos
    /\ transports = <<>>
    /\ loops = {}
    /\ is_trading_active = FALSE
    /\ datetime_now = BeforeOpen
    /\ in_window = is_trading_time(datetime_now)
    /\ polled = FALSE
    /\ overnight = TRUE
    /\ has_controller = FALSE
    /\ trading_task = "unset"
    /\ mpc = "init"
    /\ closing = FALSE
    /\ trace = <<>>

NextApi ==
    \/ Connect
    \/ ConnectFail
    \/ Disconnect
    \/ SubscribeOrderExecution
    \/ SubscribeAccountBalance
    \/ TransportCloses
    \/ \E c \in ReturnCodes : RecvLogin(c)
    \/ \E code \in SystemCodes : RecvSystem(code)
    \/ RecvClosed

SpecApi == InitApi /\ [][NextApi]_vars

(* ------------------------------------------------------------------------ *)
(* TradingMain: start(), monitor_trading_time, start_trading, stop_trading  *)
(* ------------------------------------------------------------------------ *)

\* One action is the code of start() or of the monitor task from one await to
\* the next.  mpc names the await the code is at:
\*   "init"          start() not yet run
\*   "poll"          asyncio.sleep(60) of monitor_trading_time
\*   "liq_open"      sell_all_positions() of monitor_trading_time
\*   "refresh"       initialize_account() of start_trading
\*   "connecting"    ws_client.connect() of connect_websocket
\*   "subscribe"     asyncio.sleep(2) of connect_websocket
\*   "start_task"    asyncio.sleep(1) of connect_websocket
\*   "liq_close"     sell_all_positions() of stop_trading
\*   "await_cancel"  "await self.trading_task" of stop_trading
\*   "shutdown"      an exception or an interrupt is on its way to start()
\*   "exited"        start() is over

\* what a step of TradingMain leaves alone
MainQuiet == sent' = <<>> /\ UNCHANGED timervars
WsSame == UNCHANGED <<websocket, is_connected, callbacks, pc, subvars>>

MainUpdate(active, m, task, tr, cl) ==
    /\ is_trading_active' = active
    /\ mpc' = m
    /\ trading_task' = task
    /\ trace' = tr
    /\ closing' = cl
    /\ UNCHANGED <<datetime_now, in_window, overnight, has_controller>>

\* time passes: datetime.now() becomes d
ClockTo(d) ==
    /\ mpc # "exited"
    /\ datetime_now' = d
    /\ in_window' = is_trading_time(d)
    /\ last' = Label("clock")
    /\ MainQuiet
    /\ WsSame
    /\ UNCHANGED <<is_trading_active, polled, overnight, has_controller,
                   trading_task, mpc, closing, trace>>

\* the clock enters or leaves the trading window
ClockMoves ==
    \E d \in MainInstants : is_trading_time(d) # in_window /\ ClockTo(d)

\* the clock goes to another of the instants around the edges of the window
TimePasses(d) == d # datetime_now /\ ClockTo(d)

\* the trading loop returns by itself
TaskEnds ==
    /\ trading_task = "running"
    /\ trading_task' = "done"
    /\ last' = Label("task_ends")
    /\ MainQuiet
    /\ WsSame
    /\ UNCHANGED <<is_trading_active, datetime_now, in_window, polled, overnight,
                   has_controller, mpc, closing, trace>>

\* as stop_trading, without the look at is_trading_active
stop_trading_NoGuard(active) == [returned |-> FALSE, is_trading_active |-> FALSE]

\* stop_trading() up to its first await: it returns at once when trading is
\* not active, and clears the flag before sell_all_positions() when it is
stop_trading(active) ==
    IF ~active
    THEN [returned |-> TRUE, is_trading_active |-> active]
    ELSE [returned |-> FALSE, is_trading_active |-> FALSE]

\* start_trading() up to its first await: it returns at once when trading is
\* active, and sets the flag before initialize_account() when it is not
start_trading(active) ==
    IF active
    THEN [returned |-> TRUE, is_trading_active |-> active]
    ELSE [returned |-> FALSE, is_trading_active |-> TRUE]

\* as StartUp, trading started whatever the clock says
StartUp_AlwaysStarts ==
    /\ mpc = "init"
    /\ polled' = in_window
    /\ MainUpdate(TRUE, "refresh", trading_task, <<"start", "activate">>, closing)
    /\ last' = Label("startup")
    /\ MainQuiet
    /\ WsSame

\* start() up to its first await: start_trading() up to initialize_account()
\* inside the window, the monitor task created outside of it
StartUp ==
    /\ mpc = "init"
    /\ polled' = in_window
    /\ IF in_window
       THEN MainUpdate(TRUE, "refresh", trading_task, <<"start", "activate">>, closing)
       ELSE MainUpdate(is_trading_active, "poll", trading_task, <<>>, closing)
    /\ last' = Label("startup")
    /\ MainQuiet
    /\ WsSame

\* as Poll, stop_trading() called outside the window whatever
\* is_trading_active says, its guard left out
Poll_StopsWhenIdle ==
    /\ mpc = "poll"
    /\ polled' = in_window
    /\ IF in_window /\ ~is_trading_active THEN
           IF ~overnight
           THEN MainUpdate(is_trading_active, "liq_open", trading_task,
                           <<"open">>, closing)
           ELSE MainUpdate(TRUE, "refresh", trading_task,
                           <<"open", "activate">>, closing)
       ELSE IF ~in_window THEN
           MainUpdate(FALSE, "liq_close", trading_task,
                      <<"close", "deactivate">>, closing)
       ELSE MainUpdate(is_trading_active, "poll", trading_task, <<>>, closing)
    /\ last' = Label("poll")
    /\ MainQuiet
    /\ WsSame

\* as Poll, trading started without the liquidation
Poll_NoLiquidation ==
    /\ mpc = "poll"
    /\ polled' = in_window
    /\ IF in_window /\ ~is_trading_active THEN
           MainUpdate(TRUE, "refresh", trading_task, <<"open", "activate">>, closing)
       ELSE IF ~in_window /\ is_trading_active THEN
           MainUpdate(FALSE, "liq_close", trading_task,
                      <<"close", "deactivate">>, closing)
       ELSE MainUpdate(is_trading_active, "poll", trading_task, <<>>, closing)
    /\ last' = Label("poll")
    /\ MainQuiet
    /\ WsSame

\* one turn of the loop of monitor_trading_time, up to its first await
Poll ==
    /\ mpc = "poll"
    /\ polled' = in_window
    /\ IF in_window /\ ~is_trading_active THEN
           IF ~overnight
           THEN MainUpdate(is_trading_active, "liq_open", trading_task,
                           <<"open">>, closing)
           ELSE MainUpdate(TRUE, "refresh", trading_task,
                           <<"open", "activate">>, closing)
       ELSE IF ~in_window /\ is_trading_active THEN
           MainUpdate(FALSE, "liq_close", trading_task,
                      <<"close", "deactivate">>, closing)
       ELSE MainUpdate(is_trading_active, "poll", trading_task, <<>>, closing)
    /\ last' = Label("poll")
    /\ MainQuiet
    /\ WsSame

\* sell_all_positions() of monitor_trading_time is over: its results are
\* logged and start_trading() runs up to initialize_account(); or it raised
LiquidateOpen(raised) ==
    /\ mpc = "liq_open"
    /\ IF raised
       THEN MainUpdate(is_trading_active, "shutdown", trading_task,
                       Append(trace, "liquidate_raised"), closing)
       ELSE MainUpdate(TRUE, "refresh", trading_task,
                       trace \o <<"liquidate", "activate">>, closing)
    /\ \E stk_list \in HoldingLists :
       \E success \in SellOutcomes(stk_list) :
          last' = [Label("liquidate_open") EXCEPT
                     !.rearm = raised,
                     !.sold = IF raised THEN NoSale
                              ELSE sell_all_positions(stk_list, success)]
    /\ MainQuiet
    /\ WsSame
    /\ UNCHANGED polled

\* the task start_trading creates when there is a trading controller
TaskStarted(task) == IF has_controller THEN "running" ELSE task
TraceStarted(tr) == IF has_controller THEN Append(tr, "task") ELSE tr

\* as Refresh, connect_websocket() calling connect() whatever is_connected says
Refresh_AlwaysConnects(raised) ==
    /\ mpc = "refresh"
    /\ IF raised THEN
           MainUpdate(is_trading_active, "shutdown", trading_task,
                      Append(trace, "refresh_raised"), closing)
       ELSE MainUpdate(is_trading_active, "connecting", trading_task,
                       Append(trace, "refresh"), closing)
    /\ last' = [Label("refresh") EXCEPT !.rearm = raised]
    /\ MainQuiet
    /\ WsSame
    /\ UNCHANGED polled

\* initialize_account() is over; connect_websocket() returns at once when the
\* connection is connected, and calls connect() when it is not
\* as Refresh, is_trading_active cleared when initialize_account raises
Refresh_ClearsFlagOnRaise(raised) ==
    /\ mpc = "refresh"
    /\ IF raised THEN
           MainUpdate(FALSE, "shutdown", trading_task,
                      Append(trace, "refresh_raised"), closing)
       ELSE IF is_connected THEN
           MainUpdate(is_trading_active, "poll", TaskStarted(trading_task),
                      TraceStarted(Append(trace, "refresh")), closing)
       ELSE MainUpdate(is_trading_active, "connecting", trading_task,
                       Append(trace, "refresh"), closing)
    /\ last' = [Label("refresh") EXCEPT !.rearm = raised]
    /\ MainQuiet
    /\ WsSame
    /\ UNCHANGED polled

Refresh(raised) ==
    /\ mpc = "refresh"
    /\ IF raised THEN
           MainUpdate(is_trading_active, "shutdown", trading_task,
                      Append(trace, "refresh_raised"), closing)
       ELSE IF is_connected THEN
           MainUpdate(is_trading_active, "poll", TaskStarted(trading_task),
                      TraceStarted(Append(trace, "refresh")), closing)
       ELSE MainUpdate(is_trading_active, "connecting", trading_task,
                       Append(trace, "refresh"), closing)
    /\ last' = [Label("refresh") EXCEPT !.rearm = raised]
    /\ MainQuiet
    /\ WsSame
    /\ UNCHANGED polled

\* connect() of connect_websocket succeeds
MainConnect ==
    /\ mpc = "connecting"
    /\ pc \in {"none", "done"}
    /\ \E access_token \in Tokens :
          sent' = <<json_dumps(login_data(access_token))>>
    /\ websocket' = "open"
    /\ is_connected' = TRUE
    /\ pc' = "recv"
    /\ MainUpdate(is_trading_active, "subscribe", trading_task,
                  Append(trace, "connect"), closing)
    /\ last' = Label("connect")
    /\ UNCHANGED <<callbacks, subvars, timervars, polled>>

\* connect() of connect_websocket raises
MainConnectFail ==
    /\ mpc = "connecting"
    /\ is_connected' = FALSE
    /\ MainUpdate(is_trading_active, "shutdown", trading_task,
                  Append(trace, "connect_raised"), closing)
    /\ last' = Label("connect_fail")
    /\ MainQuiet
    /\ UNCHANGED <<websocket, callbacks, pc, subvars, polled>>

\* register_callback and subscribe_order_execution of connect_websocket
MainSubscribe ==
    /\ mpc = "subscribe"
    /\ Len(subscriptions) < MaxSubs
    /\ callbacks' = callbacks \cup {"order_execution"}
    /\ LET r == subscribe_order_execution(account_no, websocket, is_connected,
                                          subscriptions)
       IN  /\ sent' = r.sent
           /\ subscriptions' = r.subscriptions
           /\ MainUpdate(is_trading_active,
                         IF r.raised THEN "shutdown" ELSE "start_task",
                         trading_task, Append(trace, "subscribe"), closing)
           /\ last' = [Label("subscribe") EXCEPT !.status = "order_execution",
                                                 !.rearm = r.raised]
    /\ UNCHANGED <<websocket, is_connected, pc, account_no, loopvars, timervars,
                   polled>>

\* the end of start_trading
StartTask ==
    /\ mpc = "start_task"
    /\ MainUpdate(is_trading_active, "poll", TaskStarted(trading_task),
                  TraceStarted(trace), closing)
    /\ last' = Label("start_task")
    /\ MainQuiet
    /\ WsSame
    /\ UNCHANGED polled

\* stop_trading() has returned with the task state task and the effects tr:
\* the monitor goes to its sleep, the finally clause of start() goes on to
\* ws_client.disconnect()
StopReturns(task, tr) ==
    IF closing
    THEN /\ LET d == disconnect(websocket, is_connected)
            IN  websocket' = d.websocket /\ is_connected' = d.is_connected
         /\ MainUpdate(is_trading_active, "exited", task,
                       Append(tr, "disconnect"), closing)
         /\ UNCHANGED <<callbacks, pc, subvars>>
    ELSE /\ MainUpdate(is_trading_active, "poll", task, tr, closing)
         /\ WsSame

\* as LiquidateClose, stop_trading returning without a look at the task
LiquidateClose_NoCancel(raised) ==
    /\ mpc = "liq_close"
    /\ IF raised
       THEN /\ MainUpdate(is_trading_active, IF closing THEN "exited" ELSE "shutdown",
                          trading_task, Append(trace, "liquidate_raised"), closing)
            /\ WsSame
       ELSE StopReturns(trading_task, Append(trace, "liquidate"))
    /\ last' = [Label("liquidate_close") EXCEPT !.rearm = raised]
    /\ MainQuiet
    /\ UNCHANGED polled

\* sell_all_positions() of stop_trading is over: a task that is not done is
\* cancelled and awaited; or it raised
LiquidateClose(raised) ==
    /\ mpc = "liq_close"
    /\ IF raised THEN
           /\ MainUpdate(is_trading_active, IF closing THEN "exited" ELSE "shutdown",
                         trading_task, Append(trace, "liquidate_raised"), closing)
           /\ WsSame
       ELSE IF trading_task = "running" THEN
           /\ MainUpdate(is_trading_active, "await_cancel", "cancelling",
                         trace \o <<"liquidate", "cancel">>, closing)
           /\ WsSame
       ELSE StopReturns(trading_task, Append(trace, "liquidate"))
    /\ \E stk_list \in HoldingLists :
       \E success \in SellOutcomes(stk_list) :
          last' = [Label("liquidate_close") EXCEPT
                     !.rearm = raised,
                     !.sold = IF raised THEN NoSale
                              ELSE sell_all_positions(stk_list, success)]
    /\ MainQuiet
    /\ UNCHANGED polled

\* the cancelled trading task has ended: "await self.trading_task" raises
\* CancelledError, which stop_trading catches
CancelAck ==
    /\ mpc = "await_cancel"
    /\ StopReturns("cancelled", Append(trace, "ack"))
    /\ last' = Label("cancel_ack")
    /\ MainQuiet
    /\ UNCHANGED polled

\* an interrupt cancels start() and the monitor at the await they are at
Interrupt ==
    /\ mpc \notin {"init", "await_cancel", "shutdown", "exited"}
    /\ ~closing
    /\ MainUpdate(is_trading_active, "shutdown", trading_task,
                  Append(trace, "interrupt"), closing)
    /\ last' = Label("interrupt")
    /\ MainQuiet
    /\ WsSame
    /\ UNCHANGED polled

\* as Shutdown, the finally clause going to ws_client.disconnect() without
\* stop_trading()
Shutdown_SkipsStop ==
    /\ mpc = "shutdown"
    /\ LET d == disconnect(websocket, is_connected)
       IN  websocket' = d.websocket /\ is_connected' = d.is_connected
    /\ MainUpdate(is_trading_active, "exited", trading_task,
                  <<"shutdown", "disconnect">>, TRUE)
    /\ UNCHANGED <<callbacks, pc, subvars>>
    /\ last' = Label("shutdown")
    /\ MainQuiet
    /\ UNCHANGED polled

\* the finally clause of start(): stop_trading(), then ws_client.disconnect()
Shutdown ==
    /\ mpc = "shutdown"
    /\ LET s == stop_trading(is_trading_active) IN
       IF ~s.returned
       THEN /\ MainUpdate(s.is_trading_active, "liq_close", trading_task,
                          <<"shutdown", "deactivate">>, TRUE)
            /\ WsSame
       ELSE /\ LET d == disconnect(websocket, is_connected)
               IN  websocket' = d.websocket /\ is_connected' = d.is_connected
            /\ MainUpdate(s.is_trading_active, "exited", trading_task,
                          <<"shutdown", "disconnect">>, TRUE)
            /\ UNCHANGED <<callbacks, pc, subvars>>
    /\ last' = Label("shutdown")
    /\ MainQuiet
    /\ UNCHANGED polled

\* start_trading() called while the monitor sleeps; rearm tells that it
\* returned at once
CallStartTrading ==
    /\ mpc = "poll"
    /\ LET s == start_trading(is_trading_active) IN
       /\ IF s.returned
          THEN MainUpdate(s.is_trading_active, mpc, trading_task, trace, closing)
          ELSE MainUpdate(s.is_trading_active, "refresh", trading_task,
                          <<"call", "activate">>, closing)
       /\ last' = [Label("start_trading") EXCEPT !.rearm = s.returned]
    /\ MainQuiet
    /\ WsSame
    /\ UNCHANGED polled

\* stop_trading() called while the monitor sleeps; rearm tells that it
\* returned at once
CallStopTrading ==
    /\ mpc = "poll"
    /\ LET s == stop_trading(is_trading_active) IN
       /\ IF s.returned
          THEN MainUpdate(s.is_trading_active, mpc, trading_task, trace, closing)
          ELSE MainUpdate(s.is_trading_active, "liq_close", trading_task,
                          <<"call", "deactivate">>, closing)
       /\ last' = [Label("stop_trading") EXCEPT !.rearm = s.returned]
    /\ MainQuiet
    /\ WsSame
    /\ UNCHANGED polled

InitMain ==
    /\ now = 0
    /\ websocket = "None"
    /\ is_connected = FALSE
    /\ callbacks = {}
    /\ order_timers = EmptyDict
    /\ tasks = {}
    /\ pc = "none"
    /\ pending = <<>>
    /\ cur = "none"
    /\ sent = <<>>
    /\ hist = [o \in OrderNos |-> NoHist]
    /\ last = Label("none")
    /\ subscriptions = <<>>
    /\ account_no = "81234567"
    /\ transports = <<>>
    /\ loops = {}
    /\ is_trading_active = FALSE
    /\ datetime_now \in MainInstants
    /\ in_window = is_trading_time(datetime_now)
    /\ polled = FALSE
    /\ overnight \in BOOLEAN
    /\ has_controller \in BOOLEAN
    /\ trading_task = "unset"
    /\ mpc = "init"
    /\ closing = FALSE
    /\ trace = <<>>

\* TradingMain with the connection it owns
NextMain ==
    \/ ClockMoves
    \/ TaskEnds
    \/ StartUp
    \/ Poll
    \/ \E raised \in BOOLEAN : LiquidateOpen(raised)
    \/ \E raised \in BOOLEAN : Refresh(raised)
    \/ MainConnect
    \/ MainConnectFail
    \/ MainSubscribe
    \/ StartTask
    \/ \E raised \in BOOLEAN : LiquidateClose(raised)
    \/ CancelAck
    \/ Interrupt
    \/ Shutdown
    \/ \E c \in ReturnCodes : RecvLogin(c)
    \/ \E code \in SystemCodes : RecvSystem(code)
    \/ RecvClosed

SpecMain == InitMain /\ [][NextMain]_vars

\* TradingMain without an interrupt: start() comes to its finally clause only
\* through an exception that has left the monitor or the first start_trading()
NextSetup ==
    \/ ClockMoves
    \/ TaskEnds
    \/ StartUp
    \/ Poll
    \/ \E raised \in BOOLEAN : LiquidateOpen(raised)
    \/ \E raised \in BOOLEAN : Refresh(raised)
    \/ MainConnect
    \/ MainConnectFail
    \/ MainSubscribe
    \/ StartTask
    \/ \E raised \in BOOLEAN : LiquidateClose(raised)
    \/ CancelAck
    \/ Shutdown
    \/ \E c \in ReturnCodes : RecvLogin(c)
    \/ \E code \in SystemCodes : RecvSystem(code)
    \/ RecvClosed

SpecSetup == InitMain /\ [][NextSetup]_vars

\* the timers under disconnect(), the closing of the transport and the
\* transitions of TradingMain; the REAL frames are a Received of the order O1
NextSurvive ==
    \/ Tick
    \/ \E t \in tasks : Expire(t)
    \/ RecvReal(<<[type |-> "00", values |-> OrderValues("O1", "jumun")]>>)
    \/ TransportCloses
    \/ RecvClosed
    \/ Disconnect
    \/ ClockMoves
    \/ StartUp
    \/ Poll
    \/ \E raised \in BOOLEAN : Refresh(raised)
    \/ MainConnect
    \/ MainSubscribe
    \/ StartTask
    \/ \E raised \in BOOLEAN : LiquidateClose(raised)

SpecSurvive == Init /\ [][NextSurvive]_vars

\* TradingMain with callers of start_trading() and stop_trading() besides the
\* monitor
NextCalls ==
    \/ NextMain
    \/ CallStartTrading
    \/ CallStopTrading

SpecCalls == InitMain /\ [][NextCalls]_vars

\* start() and the monitor before the first activation, with the clock at
\* the edges of the window
InitClock ==
    /\ InitMain
    /\ overnight
    /\ ~has_controller

NextClock ==
    \/ \E d \in Instants : TimePasses(d)
    \/ StartUp
    \/ Poll

SpecClock == InitClock /\ [][NextClock]_vars

Times == {k * ClockStep : k \in 0..MaxTicks}

TypeOK ==
    /\ now \in 0..MaxTime
    /\ websocket \in {"None", "open", "closed"}
    /\ is_connected \in BOOLEAN
    /\ pc \in {"none", "recv", "route", "handler", "done"}
    /\ DOMAIN order_timers \subseteq OrderNos
    /\ Len(sent) <= 1
    /\ Len(subscriptions) <= MaxSubs
    /\ account_no \in AccountNos
    /\ Len(transports) <= MaxTransports
    /\ \A t \in DOMAIN transports : transports[t] \in {"open", "closed"}
    /\ \A l \in loops : /\ l.at \in {"recv", "handler", "closing"}
                         /\ l.born \in DOMAIN transports
                         /\ l.on \in DOMAIN transports
    /\ is_trading_active \in BOOLEAN
    /\ trading_task \in {"unset", "running", "cancelling", "cancelled", "done"}
    /\ mpc \in {"init", "poll", "liq_open", "refresh", "connecting", "subscribe",
               "start_task", "liq_close", "await_cancel", "shutdown", "exited"}

(* ------------------------------------------------------------------------ *)
(* Properties of the order timeout supervisor                               *)
(* ------------------------------------------------------------------------ *)

LiveTasksOf(ts, o) == {t \in ts : t.order_no = o}

\* the step just taken routed an order record of the order o
RoutedOrder(o) == last.op = "route" /\ last.rt_type \in {"00", "04"} /\ last.order_no = o

\* C1: an order whose Received was followed by a Filled before the timeout
\* had elapsed gets no timeout notification, and has no entry in order_timers,
\* for as long as no new Received arrives for it.
C1_FilledInTimeNeverNotified ==
    \A o \in OrderNos :
        hist[o].fill = "in_time" => hist[o].notified = 0 /\ o \notin DOMAIN order_timers

\* the Filled came in time and the clock has run to its end since
C1_Witness ==
    \E o \in OrderNos :
        /\ hist[o].fill = "in_time"
        /\ now = MaxTime
        /\ order_timers = EmptyDict
        /\ tasks = {}

\* C2 as stated: when the first Filled after a Received is processed only
\* after the timeout duration, the one notification of the order has been
\* emitted.
C2_Original_LateFillIsNotified ==
    \A o \in OrderNos : hist[o].fill = "late" => hist[o].notified = 1

\* C2 amended, safety: a Received is followed by at most one notification; a
\* notification comes only for a Received that no Filled has followed, not
\* earlier than TIMEOUT after it, and leaves the order without entry.
C2_NotificationStep ==
    \A o \in OrderNos :
        hist'[o].notified > hist[o].notified =>
            /\ hist[o].waiting
            /\ now >= hist[o].received_at + TIMEOUT
            /\ hist'[o].notified = 1
            /\ o \notin DOMAIN order_timers'
            /\ LiveTasksOf(tasks', o) = {}

C2_NotifiedOnceAndRemoved ==
    /\ [](\A o \in OrderNos : hist[o].notified <= 1)
    /\ [](\A o \in OrderNos : hist[o].notified = 1 => o \notin DOMAIN order_timers)
    /\ [][C2_NotificationStep]_vars

\* C2 amended, liveness: a Received whose timeout ends within the horizon of
\* the model does not wait for ever; unless a Filled or a new Received is
\* processed first, its notification is emitted.
C2_Resolved(o, t) ==
    \/ hist[o].notified = 1
    \/ hist[o].fill # "none"
    \/ hist[o].waiting /\ hist[o].received_at # t

C2_ExactlyOneNotification ==
    /\ C2_NotifiedOnceAndRemoved
    /\ \A o \in OrderNos : \A t \in Times :
          (t + TIMEOUT <= MaxTime) =>
              ((hist[o].waiting /\ hist[o].received_at = t) ~> C2_Resolved(o, t))

\* a notification has been emitted and the timer map is empty
C2_Witness ==
    /\ last.op = "expire"
    /\ hist[last.order_no].notified = 1
    /\ hist[last.order_no].fill = "none"
    /\ order_timers = EmptyDict

\* C3: a Received for an order with a live timer cancels that timer and arms
\* a new one, the only one of the order, and every pending timer of an order
\* was armed when the latest Received of the order was processed.
C3_RearmStep ==
    (last'.op = "route" /\ last'.rearm) =>
        LET o == last'.order_no IN
        /\ o \in DOMAIN order_timers
        /\ order_timers[o] \notin TaskIds(tasks')
        /\ o \in DOMAIN order_timers'
        /\ LiveTasksOf(tasks', o) =
              {t \in tasks' : t.id = order_timers'[o] /\ t.armed_at = now}
        /\ Cardinality(LiveTasksOf(tasks', o)) = 1

\* a notification is never earlier than TIMEOUT after the latest Received
C3_DeadlineStep ==
    \A o \in OrderNos :
        hist'[o].notified > hist[o].notified =>
            hist[o].waiting /\ now >= hist[o].received_at + TIMEOUT

C3_RearmReplacesTimer ==
    /\ [](\A t \in tasks : /\ t.order_no \in OrderNos
                           /\ hist[t.order_no].waiting
                           /\ t.armed_at = hist[t.order_no].received_at)
    /\ [][C3_RearmStep /\ C3_DeadlineStep]_vars

\* a second Received has just re-armed the order, later than the first
C3_Witness ==
    /\ last.op = "route"
    /\ last.rearm
    /\ now > 0
    /\ \E t \in tasks : t.order_no = last.order_no /\ t.armed_at = now

\* C4: at most one live timer task per order.
C4_OneLiveTimerPerOrder ==
    \A o \in OrderNos : Cardinality(LiveTasksOf(tasks, o)) <= 1

\* both orders have a timer, one of them just re-armed
C4_Witness ==
    /\ last.op = "route"
    /\ last.rearm
    /\ \A o \in OrderNos : Cardinality(LiveTasksOf(tasks, o)) = 1

\* C5: the expiry emits one notification and removes the entry; a Filled for
\* an order without entry changes nothing; a Filled for an order with an entry
\* cancels the timer and removes the entry without a notification.
C5_Step ==
    /\ last'.op = "expire" =>
          LET o == last'.order_no IN
          /\ hist'[o].notified = hist[o].notified + 1
          /\ o \notin DOMAIN order_timers'
    /\ \A o \in OrderNos :
          (last'.op = "route" /\ last'.rt_type \in {"00", "04"}
           /\ last'.order_no = o /\ last'.status = "chegyeol") =>
              /\ [p \in OrderNos |-> hist'[p].notified]
                    = [p \in OrderNos |-> hist[p].notified]
              /\ IF o \in DOMAIN order_timers
                 THEN /\ o \notin DOMAIN order_timers'
                      /\ order_timers[o] \notin TaskIds(tasks')
                      /\ LiveTasksOf(tasks', o) = {}
                 ELSE order_timers' = order_timers /\ tasks' = tasks

C5_FirstProcessedWins == [][C5_Step]_vars

\* a Filled has just been processed for an order whose timer had fired
C5_Witness ==
    \E o \in OrderNos :
        /\ RoutedOrder(o)
        /\ last.status = "chegyeol"
        /\ hist[o].notified = 1
        /\ hist[o].fill = "none"
        /\ o \notin DOMAIN order_timers

\* C6: the wire literals "jumun" and "jeopsu" are the Received status and arm
\* a timer, only "chegyeol" removes one, every other literal and a missing
\* status leave order_timers and the timer tasks as they are.
C6_Step ==
    \A o \in OrderNos :
        (last'.op = "route" /\ last'.rt_type \in {"00", "04"} /\ last'.order_no = o) =>
            IF last'.status \in {"jumun", "jeopsu"} THEN
                /\ o \in DOMAIN order_timers'
                /\ \E t \in tasks' : t.id = order_timers'[o] /\ t.armed_at = now
            ELSE IF last'.status = "chegyeol" THEN
                o \notin DOMAIN order_timers'
            ELSE order_timers' = order_timers /\ tasks' = tasks

C6_StatusClassification == [][C6_Step]_vars

\* a record of unknown status has been routed while its order had a timer
C6_Witness ==
    \E o \in OrderNos :
        /\ RoutedOrder(o)
        /\ last.status \in {"hwagin", "", NoStatus}
        /\ o \in DOMAIN order_timers

(* ------------------------------------------------------------------------ *)
(* Properties of the router                                                 *)
(* ------------------------------------------------------------------------ *)

\* C7: the handler of an order record is invoked when the supervisor has
\* dealt with the record; a balance record goes to the balance handler alone
\* and leaves the timers as they are.
C7_Step ==
    last'.op = "route" =>
        LET o == last'.order_no IN
        IF last'.rt_type \in {"00", "04"} THEN
            /\ cur' = IF "order_execution" \in callbacks THEN "order_execution" ELSE "none"
            /\ (cur' = "order_execution") => (pc' = "handler")
            /\ last'.status \in {"jumun", "jeopsu"} =>
                  /\ o \in DOMAIN order_timers'
                  /\ \E t \in tasks' : t.id = order_timers'[o] /\ t.armed_at = now
            /\ last'.status = "chegyeol" =>
                  /\ o \notin DOMAIN order_timers'
                  /\ LiveTasksOf(tasks', o) = {}
        ELSE IF last'.rt_type = "05" THEN
            /\ cur' = IF "balance_update" \in callbacks THEN "balance_update" ELSE "none"
            /\ order_timers' = order_timers
            /\ tasks' = tasks
        ELSE cur' = "none"

C7_SupervisorBeforeHandler == [][C7_Step]_vars

\* the order handler is being awaited for a Received record, its timer armed
C7_Witness ==
    /\ pc = "handler"
    /\ cur = "order_execution"
    /\ last.op = "route"
    /\ last.status = "jumun"
    /\ last.order_no \in DOMAIN order_timers

\* C8: when a handler raises, the loop goes on as when it returns: the
\* records that follow in the frame are still routed, so that their timers
\* are armed and cancelled.
TimerRelevant(data) ==
    /\ Get(data, "type", "") \in {"04", "00"}
    /\ _parse_order_execution(data).order_status \in {"jeopsu", "chegyeol"}

C8_HandlerErrorStep ==
    (last'.op = "handler_raise" /\ \E i \in DOMAIN pending : TimerRelevant(pending[i])) =>
        /\ pending' = pending
        /\ pc' = AfterHandler(pending, is_connected)

C8_HandlerErrorKeepsTimers == [][C8_HandlerErrorStep]_vars

(* ------------------------------------------------------------------------ *)
(* Properties of the connection                                             *)
(* ------------------------------------------------------------------------ *)

C10_LoginResponse ==
    last.op = "login" =>
        IF last.code = 0
        THEN is_connected /\ websocket = "open" /\ pc = "recv"
        ELSE ~is_connected /\ websocket = "closed" /\ pc = "done"

\* a LOGIN frame without return code has ended the connection
C10_Witness ==
    /\ last.op = "login"
    /\ last.code = DefaultReturnCode
    /\ ~is_connected
    /\ pc = "done"

\* C11: a SYSTEM frame whose code holds R10004 leaves the connection
\* disconnected and the loop over; any other SYSTEM frame leaves the
\* connection as it is and the loop at its next recv.  A loop that is over
\* processes no frame.
FrameOps == {"login", "ping", "ping_closed", "reg", "system", "other", "junk",
             "real_empty", "closed"}

C11_Step ==
    /\ last'.op = "system" =>
          IF last'.status \in {"R10004", "XR10004"}
          THEN ~is_connected' /\ pc' = "done"
          ELSE /\ is_connected' = is_connected
               /\ websocket' = websocket
               /\ pc' = "recv"
    /\ pc = "done" /\ pc' = "done" => last'.op \notin FrameOps \cup {"route"}

C11_SystemNotice == [][C11_Step]_vars

\* a SYSTEM frame with a code that holds R10004 has ended the loop
C11_Witness ==
    /\ last.op = "system"
    /\ last.status = "XR10004"
    /\ ~is_connected
    /\ pc = "done"

\* C12: when the transport is closed, at recv or at the send of an answer,
\* the loop ends with the connection disconnected; on a closed transport no
\* frame is read, and the loop leaves its recv only to end.
C12_Step ==
    /\ last'.op \in {"closed", "ping_closed"} =>
          ~is_connected' /\ pc' = "done" /\ websocket' = "closed"
    /\ websocket = "closed" /\ pc = "recv" =>
          /\ last'.op \notin FrameOps \ {"closed"}
          /\ pc' \in {"recv", "done"}
          /\ pc' = "done" => last'.op = "closed"

C12_TransportClosed == [][C12_Step]_vars

\* the loop has ended on a closed transport while a timer was pending
C12_Witness ==
    /\ last.op = "closed"
    /\ pc = "done"
    /\ ~is_connected
    /\ websocket = "closed"
    /\ order_timers # EmptyDict

\* C13: a frame that cannot be decoded changes neither the connection nor the
\* timers, and the loop is at its next recv.
C13_Step ==
    last'.op = "junk" =>
        /\ UNCHANGED <<websocket, is_connected, callbacks, subscriptions,
                       order_timers, tasks, hist>>
        /\ sent' = <<>>
        /\ pc' = "recv"
        /\ is_connected' /\ websocket' = "open"

C13_MalformedFrame == [][C13_Step]_vars

\* a malformed frame has been skipped while a timer was pending
C13_Witness ==
    /\ last.op = "junk"
    /\ pc = "recv"
    /\ is_connected
    /\ order_timers # EmptyDict

\* C14: after connect() the transport is open, the connection marked
\* connected, the receive task started and one login frame with the token
\* sent; whether the login succeeds is decided by a LOGIN frame later.
C14_Step ==
    /\ last'.op = "connect" =>
          /\ websocket' = "open"
          /\ is_connected'
          /\ pc' = "recv"
          /\ \E access_token \in Tokens :
                sent' = <<json_dumps(login_data(access_token))>>
    /\ last'.op # "connect" =>
          \A access_token \in Tokens :
              json_dumps(login_data(access_token)) \notin {sent'[i] : i \in DOMAIN sent'}

C14_ConnectOrder == [][C14_Step]_vars

\* connect() has started the receive task and sent the login frame
C14_Witness ==
    /\ last.op = "connect"
    /\ pc = "recv"
    /\ is_connected
    /\ Len(sent) = 1
    /\ json_loads(sent[1])["trnm"] = "LOGIN"

\* C15: a connect() that fails at the token or at the transport leaves the
\* connection disconnected, sends nothing and starts no receive task.
C15_Step ==
    last'.op = "connect_fail" =>
        /\ ~is_connected'
        /\ sent' = <<>>
        /\ pc' = pc
        /\ pc' \in {"none", "done"}
        /\ websocket' = websocket

C15_ConnectFailure == [][C15_Step]_vars

\* a connect() has failed after an earlier connection had ended
C15_Witness ==
    /\ last.op = "connect_fail"
    /\ ~is_connected
    /\ websocket = "closed"
    /\ pc = "done"

\* C16: a subscribe call with an empty account, or on a connection that is
\* not connected, sends nothing, records nothing and raises nothing; on an
\* open connection with an account it sends one REG frame and appends the
\* name of the subscription.
C16_Step ==
    last'.op = "subscribe" =>
        IF account_no = "" \/ ~is_connected
        THEN sent' = <<>> /\ subscriptions' = subscriptions /\ ~last'.rearm
        ELSE websocket = "open" =>
              /\ Len(sent') = 1
              /\ json_loads(sent'[1])["trnm"] = "REG"
              /\ json_loads(sent'[1])["data"][1].item = <<account_no>>
              /\ subscriptions' = Append(subscriptions, last'.status)
              /\ ~last'.rearm

C16_Subscribe == [][C16_Step /\ UNCHANGED account_no]_vars

\* a subscribe call on a connection that had been disconnected did nothing
C16_Witness ==
    /\ last.op = "subscribe"
    /\ account_no # ""
    /\ ~is_connected
    /\ websocket = "closed"
    /\ sent = <<>>
    /\ subscriptions # <<>>

\* C17: disconnect() leaves the connection disconnected in every state, and
\* a second call right after changes nothing.
C17_Step ==
    /\ last'.op = "disconnect" =>
          /\ ~is_connected'
          /\ websocket' = IF websocket = "None" THEN "None" ELSE "closed"
    /\ (last.op = "disconnect" /\ last'.op = "disconnect") =>
          UNCHANGED <<websocket, is_connected, callbacks, order_timers, tasks,
                      pc, subscriptions>>

C17_DisconnectIdempotent ==
    /\ [](websocket = "None" => ~is_connected)
    /\ [][C17_Step]_vars

\* disconnect() has been called on a connection that was closed already
C17_Witness ==
    /\ last.op = "disconnect"
    /\ last.status = "closed"
    /\ ~is_connected
    /\ websocket = "closed"

(* ------------------------------------------------------------------------ *)
(* Properties of the session scheduler                                      *)
(* ------------------------------------------------------------------------ *)

Has(tr, e) == \E i \in DOMAIN tr : tr[i] = e
IsPrefix(a, b) == Len(a) <= Len(b) /\ \A i \in DOMAIN a : a[i] = b[i]

\* the effects of a trace, without the mark of the exception or interrupt
\* that ended it
IsEffect(e) == e \notin {"liquidate_raised", "refresh_raised", "connect_raised",
                         "interrupt"}
Effects(tr) == SelectSeq(tr, IsEffect)

\* C18 as stated: is_trading_active changes only to what the latest call of
\* is_trading_time() returned.
C18_Original_ClockOnly ==
    [][is_trading_active' # is_trading_active => is_trading_active' = polled']_vars

\* C18 amended: the session becomes active only after is_trading_time() has
\* returned true, in start() or in the monitor; it becomes inactive in the
\* poll in which is_trading_time() returns false, or in the finally clause
\* of start().
C18_Step ==
    is_trading_active' # is_trading_active =>
        IF is_trading_active'
        THEN polled' /\ last'.op \in {"startup", "poll", "liquidate_open"}
        ELSE \/ last'.op = "poll" /\ ~polled'
             \/ last'.op = "shutdown"

C18_ClockOrShutdown == [][C18_Step]_vars

\* the finally clause of start() has set an active session inactive
C18_Witness ==
    /\ last.op = "shutdown"
    /\ ~is_trading_active
    /\ polled
    /\ mpc = "liq_close"

\* C19 as stated: with overnight mode off, no activation without a
\* liquidation before it.
C19_Original_AlwaysLiquidates ==
    (Has(trace, "activate") /\ ~overnight) =>
        \E i, j \in DOMAIN trace :
            i < j /\ trace[i] = "liquidate" /\ trace[j] = "activate"

\* C19 amended: the effects of an activation come in one order.  The monitor
\* liquidates first when overnight mode is off and never when it is on;
\* start() never liquidates; then the session is set active, the account
\* refreshed, the connection established and subscribed when it was not
\* connected, and the trading task created when there is a controller.
Setup(connects) ==
    <<"activate", "refresh">>
    \o (IF connects THEN <<"connect", "subscribe">> ELSE <<>>)
    \o (IF has_controller THEN <<"task">> ELSE <<>>)

Activation(head, connects) ==
    <<head>>
    \o (IF head = "open" /\ ~overnight THEN <<"liquidate">> ELSE <<>>)
    \o Setup(connects)

C19_Step ==
    (is_trading_active' /\ ~is_trading_active) =>
        /\ trace'[Len(trace')] = "activate"
        /\ mpc' = "refresh"

C19_ActivationOrder ==
    /\ [](\A head \in {"open", "start"} :
            (trace # <<>> /\ trace[1] = head) =>
                \E connects \in BOOLEAN :
                    IsPrefix(Effects(trace), Activation(head, connects)))
    /\ [][C19_Step]_vars

\* the monitor has liquidated, started trading and set the session up
C19_Witness ==
    /\ ~overnight
    /\ has_controller
    /\ trace = Activation("open", TRUE)
    /\ is_trading_active
    /\ is_connected
    /\ mpc = "poll"

\* C20: when the clock has left the window, stop_trading sets the session
\* inactive, liquidates, then cancels a trading task that is not done and
\* awaits it; when it returns the session is inactive and no task runs.
Deactivation(cancels) ==
    <<"close", "deactivate", "liquidate">>
    \o (IF cancels THEN <<"cancel", "ack">> ELSE <<>>)

C20_Step ==
    (mpc \in {"liq_close", "await_cancel"} /\ ~closing /\ mpc' = "poll") =>
        /\ ~is_trading_active'
        /\ trading_task' \notin {"running", "cancelling"}
        /\ Has(trace', "liquidate")
        /\ Has(trace', "cancel") = (trading_task' = "cancelled")

CallIsNoOp ==
    /\ sent' = <<>>
    /\ UNCHANGED <<is_trading_active, trading_task, mpc, closing, trace,
                   datetime_now, in_window, polled, overnight, has_controller,
                   websocket, is_connected, callbacks, pc, subvars, timervars>>

\* C21: stop_trading() called while trading is not active liquidates nothing,
\* cancels no task and changes no state, and start_trading() called while
\* trading is active sets nothing up and starts no second trading task; the
\* stop_trading() of the finally clause liquidates and cancels nothing when
\* trading is not active.
C21_Step ==
    /\ (last'.op = "stop_trading" /\ ~is_trading_active) => CallIsNoOp
    /\ (last'.op = "start_trading" /\ is_trading_active) => CallIsNoOp
    /\ (last'.op = "shutdown" /\ ~is_trading_active) =>
           /\ mpc' = "exited"
           /\ ~is_trading_active'
           /\ trading_task' = trading_task
           /\ ~Has(trace', "deactivate")

C21_Idempotence == [][C21_Step]_vars

\* start_trading() has returned at once with the trading task running
C21_Witness ==
    /\ last.op = "start_trading"
    /\ last.rearm
    /\ is_trading_active
    /\ trading_task = "running"
    /\ mpc = "poll"

(* ------------------------------------------------------------------------ *)
(* Properties of the shutdown path                                          *)
(* ------------------------------------------------------------------------ *)

\* C22 as stated: once start() is over, the liquidation has run and the
\* connection is closed, whether trading was active or not.
C22_Original_AlwaysLiquidates ==
    mpc = "exited" => (Has(trace, "liquidate") /\ websocket # "open")

\* the effects of the finally clause of start() when it has come to its end
ShutdownEffects ==
    {<<"shutdown", "disconnect">>,
     <<"shutdown", "deactivate", "liquidate", "disconnect">>,
     <<"shutdown", "deactivate", "liquidate", "cancel", "ack", "disconnect">>,
     <<"shutdown", "deactivate">>}

C22_Step ==
    /\ last'.op = "shutdown" =>
           /\ closing'
           /\ IF is_trading_active
              THEN /\ trace' = <<"shutdown", "deactivate">>
                   /\ mpc' = "liq_close"
                   /\ ~is_trading_active'
              ELSE /\ trace' = <<"shutdown", "disconnect">>
                   /\ mpc' = "exited"
                   /\ trading_task' = trading_task
    /\ (mpc # "exited" /\ mpc' = "exited") =>
           /\ Effects(trace') \in ShutdownEffects
           /\ IF Has(trace', "disconnect")
              THEN websocket' # "open" /\ ~is_connected'
              ELSE /\ Has(trace', "liquidate_raised")
                   /\ UNCHANGED <<websocket, is_connected>>

\* C22: on shutdown the finally clause of start() calls stop_trading() once.
\* With trading active the call deactivates, liquidates once and cancels and
\* awaits a running trading task; with trading not active it returns at once.
\* When the call has returned the connection is closed; when its liquidation
\* raises, start() ends with the connection as it was.
C22_ShutdownSequence == [][C22_Step]_vars

\* start() is over after a shutdown with trading active and a running task
C22_Witness ==
    /\ mpc = "exited"
    /\ trace = <<"shutdown", "deactivate", "liquidate", "cancel", "ack", "disconnect">>
    /\ websocket = "closed"
    /\ ~is_connected
    /\ trading_task = "cancelled"

(* ------------------------------------------------------------------------ *)
(* Properties of the trading window                                         *)
(* ------------------------------------------------------------------------ *)

SecondOfDay(dt) == (dt.hour * 60 + dt.minute) * 60 + dt.second

\* 09:01:00 and 15:30:00 as seconds of the day
C23_Inside(dt) ==
    /\ dt.weekday \in 0..4
    /\ 32460 <= SecondOfDay(dt)
    /\ \/ SecondOfDay(dt) < 55800
       \/ SecondOfDay(dt) = 55800 /\ dt.microsecond = 0

\* C23: with START 09:01 and END 15:30, is_trading_time() is true exactly
\* from Monday to Friday between 09:01:00 and 15:30:00, both included:
\* 09:00:59 of a weekday is outside, 09:01:00 and 15:30:00 are inside, and
\* every time of a Saturday or a Sunday is outside.
C23_WindowMembership ==
    /\ in_window = C23_Inside(datetime_now)
    /\ (datetime_now.weekday <= 4 /\ SecondOfDay(datetime_now) = 32459)
           => ~in_window
    /\ (datetime_now.weekday <= 4 /\ SecondOfDay(datetime_now) = 32460)
           => in_window
    /\ (datetime_now.weekday <= 4 /\ SecondOfDay(datetime_now) = 55800
           /\ datetime_now.microsecond = 0) => in_window
    /\ datetime_now.weekday \in {5, 6} => ~in_window
    /\ (last.op \in {"startup", "poll"} /\ mpc # "exited")
           => polled = C23_Inside(datetime_now)

\* the monitor polls at 15:30:00 of a Friday
C23_Witness ==
    /\ datetime_now = datetime(4, 15, 30, 0, 0)
    /\ last.op = "poll"
    /\ polled
    /\ in_window

(* ------------------------------------------------------------------------ *)
(* Properties of the order decoding                                         *)
(* ------------------------------------------------------------------------ *)

\* the step just taken routed an order record
OrderRouted == last.op = "route" /\ last.rt_type \in {"00", "04"}

\* the field of the decoded record that the field code k is read into
FieldOf(k) ==
    CASE k = "900" -> "order_qty" [] k = "911" -> "exec_qty"
      [] k = "910" -> "exec_price" [] k = "902" -> "remain_qty"
      [] k = "9203" -> "order_no" [] k = "9001" -> "stock_code"
      [] k = "302" -> "stock_name" [] k = "913" -> "order_status"
      [] k = "907" -> "buy_sell"

\* texts that are empty, blank, or not the text of an integer
C24_Blank == {<<>>, <<" ">>, <<" ", " ">>}
C24_NotNumeric == {<<"-">>, <<"a">>, <<"1", "a">>, <<"1", ".", "5">>, <<"1", " ", "2">>}

FailureStep ==
    \/ last'.op = "connect_fail"
    \/ last'.op = "subscribe" /\ last'.rearm
    \/ last'.op = "login" /\ last'.code # 0
    \/ last'.op = "closed"

\* C25: a failure of the listed kinds leaves the monitor where it was, or at
\* another await of its loop: it never takes start() to its finally clause.
C25_Step ==
    (FailureStep /\ mpc \notin {"shutdown", "exited"})
        => mpc' \notin {"shutdown", "exited"}

C25_FailuresKeepPolling == [][C25_Step]_vars

(* ------------------------------------------------------------------------ *)
(* Consistency of order_timers                                              *)
(* ------------------------------------------------------------------------ *)

\* the entries of order_timers are the orders that wait for their fill, each
\* entry is the only pending timer task of its order, and no pending timer
\* task is without its entry
C26_Consistent ==
    /\ \A o \in OrderNos : (o \in DOMAIN order_timers) = hist[o].waiting
    /\ \A o \in DOMAIN order_timers :
          \E t \in tasks : /\ t.id = order_timers[o]
                           /\ t.order_no = o
                           /\ LiveTasksOf(tasks, o) = {t}
    /\ \A t \in tasks : /\ t.order_no \in DOMAIN order_timers
                        /\ order_timers[t.order_no] = t.id

\* the entry an expiry removes is the entry of the task that expired
C26_ExpiryStep ==
    last'.op = "expire" =>
        \E t \in tasks :
            /\ t \notin tasks'
            /\ t.order_no = last'.order_no
            /\ order_timers[t.order_no] = t.id
            /\ order_timers' = Without(order_timers, t.order_no)
            /\ tasks' = tasks \ {t}

\* C26: an order is a key of order_timers exactly when a Received of it was
\* processed with no Filled and no expiry since; its entry is the one pending
\* timer task of the order, never a cancelled or finished one; an expiry
\* removes only the entry of the task that expired.
C26_TimerMapConsistency == []C26_Consistent /\ [][C26_ExpiryStep]_vars

\* the timer of O1 has expired while the re-armed timer of O2 is pending
C26_Witness ==
    /\ last.op = "expire"
    /\ last.order_no = "O1"
    /\ "O1" \notin DOMAIN order_timers
    /\ "O2" \in DOMAIN order_timers
    /\ \E t \in tasks : /\ t.id = order_timers["O2"]
                        /\ t.armed_at > 0
                        /\ t.armed_at = hist["O2"].received_at

(* ------------------------------------------------------------------------ *)
(* Order of the records of a REAL frame                                     *)
(* ------------------------------------------------------------------------ *)

\* C27: the records of the frame in hand leave it only by being routed, head
\* first, and a record is routed only when no handler of an earlier record is
\* still awaited.
C27_Step ==
    /\ pending' # pending => last'.op = "route"
    /\ last'.op = "route" =>
          /\ cur = "none"
          /\ pc = "route" => (last'.data = Head(pending) /\ pending' = Tail(pending))

C27_EveryRecordInOrder == [][C27_Step]_vars

(* ------------------------------------------------------------------------ *)
(* The trading task and the session state                                   *)
(* ------------------------------------------------------------------------ *)

\* C28: the trading task runs only while trading is active.
C28_TaskOnlyWhileActive == trading_task = "running" => is_trading_active

(* ------------------------------------------------------------------------ *)
(* Liquidation                                                              *)
(* ------------------------------------------------------------------------ *)

\* the step is the end of a liquidation that returned its results
Liquidated(op) == last'.op = op /\ ~last'.rearm

\* the sell requests of a liquidation, in their order
IsRequest(e) == e.op = "limit_sell"
Requests(sold) == SelectSeq(sold.events, IsRequest)

\* one sell request per result, in the order of the results
OneRequestEach(sold) ==
    /\ Len(Requests(sold)) = Len(sold.results)
    /\ \A i \in DOMAIN sold.results :
          Requests(sold)[i].position.stock_code = sold.results[i].stock_code
    /\ \A i, j \in DOMAIN sold.results :
          sold.results[i].stock_code = sold.results[j].stock_code => i = j

\* C29: whatever sells are reported as failed, the liquidation of an opening
\* is followed by the start of trading and its setup, the liquidation of a
\* closing by the cancellation of a running trading task with trading not
\* active, and every position is requested to be sold once, failed or not.
C29_Step ==
    /\ Liquidated("liquidate_open") =>
          /\ is_trading_active'
          /\ mpc' = "refresh"
          /\ trace' = <<"open", "liquidate", "activate">>
          /\ OneRequestEach(last'.sold)
    /\ Liquidated("liquidate_close") =>
          /\ ~is_trading_active'
          /\ IF trading_task = "running"
             THEN trading_task' = "cancelling" /\ mpc' = "await_cancel"
             ELSE trading_task' = trading_task /\ mpc' \in {"poll", "exited"}
          /\ OneRequestEach(last'.sold)

C29_BestEffortLiquidation == [][C29_Step]_vars

\* every sell of a closing with two positions has failed and the trading
\* task is being cancelled
C29_Witness ==
    /\ last.op = "liquidate_close"
    /\ ~last.rearm
    /\ Len(last.sold.results) = 2
    /\ \A i \in DOMAIN last.sold.results : ~last.sold.results[i].success
    /\ ~is_trading_active
    /\ trading_task = "cancelling"
    /\ mpc = "await_cancel"

(* ------------------------------------------------------------------------ *)
(* Reconnection                                                             *)
(* ------------------------------------------------------------------------ *)

\* C30: connect() is called only by the start_trading() of an activation and
\* only when the connection is not connected; nothing else opens the
\* transport or sets the flag, so a connection lost while trading stays
\* active remains disconnected.
C30_Step ==
    /\ mpc' = "connecting" =>
          /\ ~is_connected'
          /\ is_trading_active'
          /\ Has(trace', "activate")
    /\ last'.op \in {"connect", "connect_fail"} =>
          /\ mpc = "connecting"
          /\ ~is_connected
    /\ (websocket # "open" /\ websocket' = "open") => last'.op = "connect"
    /\ (~is_connected /\ is_connected') => last'.op = "connect"
    /\ (is_trading_active /\ mpc \in {"poll", "start_task", "subscribe"}
        /\ ~is_connected /\ is_trading_active') => ~is_connected'

C30_NoAutomaticReconnect == [][C30_Step]_vars

\* the monitor has polled with trading active and the connection lost
C30_Witness ==
    /\ last.op = "poll"
    /\ polled
    /\ is_trading_active
    /\ ~is_connected
    /\ websocket = "closed"
    /\ mpc = "poll"

(* ------------------------------------------------------------------------ *)
(* The idle poll                                                            *)
(* ------------------------------------------------------------------------ *)

\* C31: a turn of the monitor loop with trading not active and the clock
\* outside the window changes nothing: no liquidation, no connect, no
\* subscription, no task started or cancelled; is_trading_active, the
\* connection and order_timers stay as they are and the monitor sleeps again.
C31_Step ==
    (last'.op = "poll" /\ ~is_trading_active /\ ~in_window) =>
        /\ ~polled'
        /\ mpc' = "poll"
        /\ trace' = <<>>
        /\ sent' = <<>>
        /\ UNCHANGED <<is_trading_active, trading_task, closing, websocket,
                       is_connected, callbacks, pc, subvars, timervars>>

C31_IdlePoll == [][C31_Step]_vars

\* the monitor has polled outside the window after a session that was closed:
\* the connection of that session is still connected
C31_Witness ==
    /\ last.op = "poll"
    /\ ~polled
    /\ ~in_window
    /\ ~is_trading_active
    /\ mpc = "poll"
    /\ is_connected
    /\ trading_task = "cancelled"

(* ------------------------------------------------------------------------ *)
(* One sell order per sellable holding                                      *)
(* ------------------------------------------------------------------------ *)

\* a liquidation that has returned has just been taken
LiquidationDone == last.op \in {"liquidate_open", "liquidate_close"} /\ ~last.rearm

\* the indices of the holdings with a positive quantity, and of those with a
\* positive quantity and a positive current price
Held(sold) == {i \in DOMAIN sold.holdings : IntOf(sold.holdings[i].rmnd_qty) > 0}
Priced(sold) == {i \in Held(sold) : IntOf(sold.holdings[i].cur_prc) > 0}

\* the sell requests for the i-th holding
RequestsFor(sold, i) ==
    {k \in DOMAIN sold.events :
        /\ sold.events[k].op = "limit_sell"
        /\ <<"A">> \o sold.events[k].position.stock_code = sold.holdings[i].stk_cd}

\* the results for the i-th holding
ResultsFor(sold, i) ==
    {k \in DOMAIN sold.results :
        <<"A">> \o sold.results[k].stock_code = sold.holdings[i].stk_cd}

\* every sell request is followed at once by a pause, and nothing else is done
PauseAfterEach(sold) ==
    /\ Len(sold.events) % 2 = 0
    /\ \A k \in DOMAIN sold.events :
          IF k % 2 = 1
          THEN /\ sold.events[k].op = "limit_sell"
               /\ sold.events[k + 1].op = "sleep"
               /\ sold.events[k + 1].position = sold.events[k].position
          ELSE sold.events[k].op = "sleep"

\* the requests follow the order of the holdings
InHoldingOrder(sold) ==
    \A i, j \in Priced(sold) : \A k \in RequestsFor(sold, i) : \A l \in RequestsFor(sold, j) :
        i < j => k < l

BalanceRouted == last.op = "route" /\ last.rt_type = "05"

\* the field of the decoded balance that the key k is read into
BalanceField(k) ==
    CASE k = "ord_psbl_cash" -> "ord_psbl_cash" [] k = "tot_evlu_amt" -> "tot_evlu_amt"
      [] k = "hldg_qty" -> "holding_qty" [] k = "pchs_avg_pric" -> "avg_price"

\* the wire value of the key k is missing, null, empty, blank or not the text
\* of an integer
Unusable(data, k) ==
    \/ k \notin DOMAIN data
    \/ data[k] = PyNone
    \/ data[k].chars \in C24_Blank \cup C24_NotNumeric

\* the decoded value is zero: the number 0, or the text '0' read as a number
PyInt(n) == [kind |-> "int", value |-> n]
IsZero(v) == v \in {PyInt(0), PyStr(<<"0">>)}

\* C33: in the decoding of a balance record the available cash, the total
\* evaluation, the holding quantity and the average price are 0 whenever the
\* wire value is missing, empty or not numeric, and the record is routed to
\* the handler of balance updates.
C33_BalanceNumericTolerance ==
    BalanceRouted =>
        /\ \A k \in BalanceKeys :
              Unusable(last.data, k) => IsZero(last.balance[BalanceField(k)])
        /\ pc \in {"recv", "route", "handler"}

(* ------------------------------------------------------------------------ *)
(* Frames that are only logged                                              *)
(* ------------------------------------------------------------------------ *)

\* C34: a registration acknowledgement, of a success or of a failure, and a
\* frame of a kind no branch knows are only logged: nothing is sent, the
\* transport, the connected flag, the subscriptions, the handlers, the timers
\* and their tasks stay as they are, and the loop waits for the next frame.
C34_Step ==
    (last'.op \in {"reg", "other"}) =>
        /\ pc = "recv"
        /\ pc' = "recv"
        /\ sent' = <<>>
        /\ UNCHANGED <<websocket, is_connected, subscriptions, account_no,
                       callbacks, order_timers, tasks, pending, cur, now>>

C34_OnlyLogged == [][C34_Step]_vars

\* a failed registration has been acknowledged while a timer is armed, a
\* subscription recorded and a handler registered: the loop is receiving
C34_Witness ==
    /\ last.op = "reg"
    /\ last.code = 8005
    /\ pc = "recv"
    /\ is_connected
    /\ order_timers # <<>>
    /\ subscriptions # <<>>
    /\ callbacks # {}

(* ------------------------------------------------------------------------ *)
(* One receive loop                                                         *)
(* ------------------------------------------------------------------------ *)

\* C35: at most one receive task of the connection object has not ended, and
\* a task awaits recv() only of the transport it was started for.
C35_SingleReceiveLoop ==
    /\ Cardinality(loops) <= 1
    /\ \A l \in loops : l.at = "recv" => l.on = l.born

(* ------------------------------------------------------------------------ *)
(* A failure of the setup of start_trading                                  *)
(* ------------------------------------------------------------------------ *)

\* initialize_account() or connect() has raised in the transition in hand
SetupRaised(tr) == Has(tr, "refresh_raised") \/ Has(tr, "connect_raised")

\* the step just taken is that exception
SetupFailure == (last'.op = "refresh" /\ last'.rearm) \/ last'.op = "connect_fail"

\* how often the effect e is in tr
Count(tr, e) == Cardinality({i \in DOMAIN tr : tr[i] = e})

\* start() ends after a stop_trading() that found trading active
ExitAfterDeactivation ==
    mpc # "exited" /\ mpc' = "exited" /\ Has(trace', "deactivate")

C36_Step ==
    /\ SetupFailure =>
          /\ is_trading_active /\ is_trading_active'
          /\ mpc' = "shutdown"
          /\ ~closing'
    /\ (mpc = "shutdown" /\ mpc' = "shutdown") => UNCHANGED <<is_trading_active, trace>>
    /\ (last'.op = "shutdown" /\ SetupRaised(trace)) =>
          /\ is_trading_active /\ ~is_trading_active'
          /\ mpc' = "liq_close"
          /\ closing'
          /\ trace' = <<"shutdown", "deactivate">>
    /\ ExitAfterDeactivation =>
          IF Has(trace', "liquidate_raised")
          THEN /\ Count(trace', "liquidate") = 0
               /\ UNCHANGED <<websocket, is_connected>>
          ELSE /\ Count(trace', "liquidate") = 1
               /\ Count(trace', "disconnect") = 1
               /\ websocket' # "open"
               /\ ~is_connected'

StopTradingStep ==
    \/ last'.op = "poll" /\ is_trading_active /\ ~is_trading_active'
    \/ last'.op = "liquidate_close"

\* disconnect(), the closing of the transport as it happens and as the
\* receive loop sees it, or a step of stop_trading()
ConnectionOrSessionEnds ==
    \/ last'.op \in {"disconnect", "transport_closes", "closed"}
    \/ StopTradingStep

\* a timer task whose sleep is over can run, whatever the connection and the
\* session are
C37_TimerCanFire ==
    \A t \in tasks : (SleepOver(t, now) /\ Suspended) => ENABLED Expire(t)

C37_Step ==
    /\ ConnectionOrSessionEnds => UNCHANGED <<order_timers, tasks, hist>>
    /\ \A t \in tasks : t \notin tasks' => last'.op \in {"expire", "route"}
    /\ last'.op = "expire" =>
          \E t \in tasks \ tasks' :
             /\ now >= t.armed_at + TIMEOUT
             /\ t.order_no = last'.order_no
             /\ hist'[t.order_no].notified = hist[t.order_no].notified + 1
             /\ t.order_no \notin DOMAIN order_timers'

\* C37: disconnect(), the closing of the transport and stop_trading() leave
\* order_timers and the timer tasks as they are; a timer task ends only by its
\* expiry or by a routed order record, and when TIMEOUT has elapsed since it
\* was armed it can run and emits its notification.
C37_TimersSurvive == []C37_TimerCanFire /\ [][C37_Step]_vars

\* the timer of O1 has expired after the session was stopped and the
\* connection closed
C37_Witness ==
    /\ last.op = "expire"
    /\ last.order_no = "O1"
    /\ hist["O1"].notified = 1
    /\ trace = <<"close", "deactivate", "liquidate">>
    /\ ~is_trading_active
    /\ websocket = "closed"
    /\ ~is_connected

(* ------------------------------------------------------------------------ *)
(* Partial fills                                                            *)
(* ------------------------------------------------------------------------ *)

\* the step just taken has routed a Filled record
FilledRouted == last'.op = "route" /\ last'.parsed.order_status = "chegyeol"

\* C38: a Filled record removes the entry of its order from order_timers and
\* cancels its timer task whatever the executed and the remaining quantity
\* are; an entry is only made by a Received record, and a timeout notification
\* is only emitted for an order whose latest Received had no Filled after it.
C38_Step ==
    /\ FilledRouted =>
          /\ last'.parsed.order_no \notin DOMAIN order_timers'
          /\ \A t \in tasks' : t.order_no # last'.parsed.order_no
          /\ ~hist'[last'.parsed.order_no].waiting
    /\ \A o \in OrderNos :
          (o \notin DOMAIN order_timers /\ o \in DOMAIN order_timers') =>
              /\ last'.op = "route"
              /\ last'.parsed.order_status = "jeopsu"
              /\ last'.parsed.order_no = o
    /\ last'.op = "expire" =>
          /\ hist[last'.order_no].waiting
          /\ last'.order_no \in DOMAIN order_timers

C38_FillCancelsWhateverRemains == [][C38_Step]_vars

\* the Filled of O1 that leaves a quantity of 5 has been
\* routed while the timer of O1 was armed: no entry and no task are left
C38_Witness ==
    /\ last.op = "route"
    /\ last.parsed.order_no = "O1"
    /\ last.parsed.order_status = "chegyeol"
    /\ last.parsed.exec_qty = 5
    /\ last.parsed.remain_qty = 5
    /\ hist["O1"].fill = "in_time"
    /\ order_timers = EmptyDict
    /\ tasks = {}

====
